---- MODULE Spec2Model ----
(***************************************************************************)
(* Control logic of src/workflows/research.py: the retrying call wrapper   *)
(* _run_with_retry and the iterative research loop run_agentic_research.  *)
(* The hosted model (Runner.run + final_output_as) is the environment: one *)
(* step of the model is one call to it, with a nondeterministic outcome.   *)
(***************************************************************************)
EXTENDS Integers, Sequences, FiniteSets, TLC

VARIABLES
    pc,                 \* position of the control flow
    max_retries,        \* _run_with_retry argument
    prompt,             \* _run_with_retry argument: prompt of the wrapped call
    attempt,            \* loop variable of _run_with_retry
    last_error,         \* local of _run_with_retry
    sent,               \* prompts received by Runner.run during the wrapped call
    raised,             \* exception that left the function (None if none)
    ret,                \* value returned to the caller (None if none)
    max_iterations,     \* run_agentic_research argument
    iteration,          \* loop variable of run_agentic_research
    user_input,         \* stripped line read from the user
    current_plan,
    current_result,
    fact_check,         \* verdict of the current iteration (None if skipped)
    evaluations,
    raw_results,
    accepted_findings,
    accepted_evidence,
    fact_check_history,
    verdicts,           \* what the fact-checker returned, per iteration
    args                \* arguments of a function applied on its own

vars == <<pc, max_retries, prompt, attempt, last_error, sent, raised, ret,
          max_iterations, iteration, user_input, current_plan, current_result,
          fact_check, evaluations, raw_results, accepted_findings,
          accepted_evidence, fact_check_history, verdicts, args>>

loopVars == <<max_iterations, iteration, user_input, current_plan,
              current_result, fact_check, evaluations, raw_results,
              accepted_findings, accepted_evidence, fact_check_history,
              verdicts>>

\* Python None (a record, so that it compares with every structured value)
None == [none |-> TRUE]

\* an Optional value that is present
Some(s) == [some |-> s]

\* ------------------------------------------------------------------ bounds
MaxRetriesBound == 3    \* max_retries of a standalone wrapped call: 0..3
MaxCalls == 2           \* wrapped calls a caller awaits one after another
MaxIter == 2            \* max_iterations: 1..MaxIter

\* --------------------------------------------------------- program constants
MAX_PARSE_RETRIES == 2
KeyLen == 80
ReasonLen == 50

\* ------------------------------------------------------------------ helpers
Range(s) == {s[i] : i \in 1..Len(s)}
Min(a, b) == IF a < b THEN a ELSE b
Max(a, b) == IF a > b THEN a ELSE b

\* Python slice s[:n]
Take(s, n) == SubSeq(s, 1, Min(n, Len(s)))

\* a text of n copies of character c
Pad(c, n) == [i \in 1..n |-> c]

\* f"{x:.1%}": tenths of a percent, ties to even
Percent1(q) ==
    LET whole == (1000 * q[1]) \div q[2]
        rest == (1000 * q[1]) % q[2]
    IN  IF 2 * rest > q[2] \/ (2 * rest = q[2] /\ whole % 2 = 1)
        THEN whole + 1 ELSE whole

\* ------------------------------------------------------- _run_with_retry
\* variant: the appended text has no header
AmendmentFixed(att, mr) == <<"RETRY", "-", "-", "REDUCE_OUTPUT">>

\* The text appended on a retry (f-string with attempt and max_retries).
Amendment(att, mr) == <<"RETRY", ToString(att), ToString(mr), "REDUCE_OUTPUT">>

\* variant: the amended prompt is carried over to the next attempt
CurrentPromptCarried(p, att, mr) ==
    IF att = 0 THEN p ELSE sent[Len(sent)] \o Amendment(att, mr)

\* current_prompt of attempt att
CurrentPrompt(p, att, mr) == IF att = 0 THEN p ELSE p \o Amendment(att, mr)

\* Exceptions are objects: each call of Runner.run that fails raises its own.
ModelBehaviorError(n) == [kind |-> "ModelBehaviorError", call |-> n]
OtherKinds == {"ValueError", "TimeoutError"}
OtherError(k, n) == [kind |-> k, call |-> n]

CallSites ==
    {"standalone", "plan", "revise", "research", "factcheck", "evaluate", "decode"}

\* prompts of a standalone call of the wrapper
Prompts == {<<"p">>, <<"q", "r">>}
Outputs == {[theme |-> "out1"], [theme |-> "out2"], [theme |-> "out3"]}

\* variant: range(2 + max_retries)
RetryRangeLong(mr) == 0..(mr + 1)

\* variant: range(max_retries)
RetryRangeShort(mr) == 0..(mr - 1)

\* range(1 + max_retries)
RetryRange(mr) == 0..mr

\* for attempt in range(1 + max_retries)
InRetryLoop == pc \in CallSites /\ attempt \in RetryRange(max_retries)

\* variant: except Exception
CaughtAny(e) == TRUE

\* except ModelBehaviorError
Caught(e) == e.kind = "ModelBehaviorError"

\* variant: last_error = last_error or e
RecordErrorFirst(prev, e) == IF prev = None THEN e ELSE prev

\* last_error = e
RecordError(prev, e) == e

\* the prompt Runner.run receives on this attempt
Capture == Append(sent, CurrentPrompt(prompt, attempt, max_retries))

\* variant: the failures of the call before still count against the budget
StartCallCarried(site, p) ==
    /\ pc' = site
    /\ prompt' = p
    /\ attempt' = Max(Len(sent) - 1, 0)
    /\ last_error' = None
    /\ sent' = <<>>
    /\ UNCHANGED max_retries

\* state of a fresh call of the wrapper with prompt p
StartCall(site, p) ==
    /\ pc' = site
    /\ prompt' = p
    /\ attempt' = 0
    /\ last_error' = None
    /\ sent' = <<>>
    /\ UNCHANGED max_retries

\* ---------------------------------------------------------------- decoding
\* Decoding of the Invoker's raw output against an output schema
\* (TypeAdapter(output_type).validate_json, as the tests call it) with the
\* field declarations of src/models/schemas.py.
MaxPresent == 1         \* documents holding at most this many fields
MaxMissing == 1         \* documents lacking at most this many fields

\* JSON values
JStr(s) == [t |-> "string", v |-> s]
JNum(n) == [t |-> "number", v |-> n]
JBool(b) == [t |-> "boolean", v |-> b]
JNull == [t |-> "null"]
JList(xs) == [t |-> "array", v |-> xs]
JObj(f) == [t |-> "object", v |-> f]

\* field declarations: kind, element schema, default
StrField(d) == [kind |-> "str", of |-> "", default |-> JStr(d)]
IntField(d) == [kind |-> "int", of |-> "", default |-> JNum(d)]
FloatField(d) == [kind |-> "float", of |-> "", default |-> JNum(d)]
\* variant: a bool field left out is False
BoolFieldFalse(d) == [kind |-> "bool", of |-> "", default |-> JBool(FALSE)]
BoolField(d) == [kind |-> "bool", of |-> "", default |-> JBool(d)]
StrListField == [kind |-> "strlist", of |-> "", default |-> JList(<<>>)]
DictField == [kind |-> "dict", of |-> "", default |-> JObj(<<>>)]
ModelListField(m) == [kind |-> "models", of |-> m, default |-> JList(<<>>)]
OptModelField(m) == [kind |-> "optmodel", of |-> m, default |-> JNull]
OptStrField == [kind |-> "optstr", of |-> "", default |-> JNull]

SchemaNames ==
    {"Finding", "Evidence", "VerifiedEvidence",
     "RemovedEvidence", "VerifiedFinding", "RemovedFinding",
     "FactCheckResultOutput", "SearchPlanOutput", "SimpleSearchOutput",
     "ResearchResultOutput", "EvaluationOutput", "ComparisonReportOutput"}

\* the fields of each schema: kind, element schema, declared default
Schema(name) ==
    CASE name = "Finding" ->
            [content |-> StrField(""),
             source |-> StrField("")]
      [] name = "Evidence" ->
            [title |-> StrField(""),
             url |-> StrField(""),
             summary |-> StrField("")]
      [] name = "VerifiedEvidence" ->
            [title |-> StrField(""),
             url |-> StrField(""),
             original_url |-> StrField(""),
             summary |-> StrField(""),
             status |-> StrField("unverified"),
             verification_note |-> StrField("")]
      [] name = "RemovedEvidence" ->
            [title |-> StrField(""),
             original_url |-> StrField(""),
             reason |-> StrField("")]
      [] name = "VerifiedFinding" ->
            [content |-> StrField(""),
             source |-> StrField(""),
             source_url |-> StrField(""),
             confidence |-> StrField("low")]
      [] name = "RemovedFinding" ->
            [content |-> StrField(""),
             source |-> StrField(""),
             reason |-> StrField("")]
      [] name = "FactCheckResultOutput" ->
            [verified_evidences |-> ModelListField("VerifiedEvidence"),
             removed_evidences |-> ModelListField("RemovedEvidence"),
             verified_findings |-> ModelListField("VerifiedFinding"),
             removed_findings |-> ModelListField("RemovedFinding"),
             verification_summary |-> StrField(""),
             total_verified |-> IntField(0),
             total_removed |-> IntField(0),
             reliability_score |-> FloatField(0)]
      [] name = "SearchPlanOutput" ->
            [objective |-> StrField(""),
             research_areas |-> StrListField,
             search_keywords |-> DictField,
             priority_order |-> StrListField,
             research_strategy |-> StrField(""),
             expected_outcomes |-> StrListField]
      [] name = "SimpleSearchOutput" ->
            [theme |-> StrField(""),
             findings |-> ModelListField("Finding"),
             evidence |-> ModelListField("Evidence"),
             summary |-> StrField("see findings"),
             coverage_areas |-> StrListField]
      [] name = "ResearchResultOutput" ->
            [theme |-> StrField(""),
             plan_used |-> OptModelField("SearchPlanOutput"),
             findings |-> ModelListField("Finding"),
             evidence |-> ModelListField("Evidence"),
             research_depth_analysis |-> StrField(""),
             interconnections |-> StrListField,
             summary |-> StrField("see findings"),
             iteration_number |-> IntField(1)]
      [] name = "EvaluationOutput" ->
            [iteration_number |-> IntField(1),
             objective_achievement_score |-> IntField(0),
             coverage_score |-> IntField(0),
             depth_insight_score |-> IntField(0),
             actionability_score |-> IntField(0),
             credibility_score |-> IntField(0),
             quantitative_score |-> IntField(0),
             coverage_gaps |-> StrListField,
             overall_quality_score |-> IntField(0),
             should_refine |-> BoolField(TRUE),
             refinement_strategy |-> OptStrField,
             refined_plan |-> OptModelField("SearchPlanOutput"),
             expert_observations |-> StrField("")]
      [] name = "ComparisonReportOutput" ->
            [theme |-> StrField(""),
             simple_search_objective_score |-> IntField(0),
             simple_search_coverage_score |-> IntField(0),
             simple_search_depth_insight_score |-> IntField(0),
             simple_search_actionability_score |-> IntField(0),
             simple_search_credibility_score |-> IntField(0),
             simple_search_quantitative_score |-> IntField(0),
             agentic_search_objective_score |-> IntField(0),
             agentic_search_coverage_score |-> IntField(0),
             agentic_search_depth_insight_score |-> IntField(0),
             agentic_search_actionability_score |-> IntField(0),
             agentic_search_credibility_score |-> IntField(0),
             agentic_search_quantitative_score |-> IntField(0),
             objective_improvement_rate |-> FloatField(0),
             coverage_improvement_rate |-> FloatField(0),
             depth_insight_improvement_rate |-> FloatField(0),
             actionability_improvement_rate |-> FloatField(0),
             credibility_improvement_rate |-> FloatField(0),
             quantitative_improvement_rate |-> FloatField(0),
             simple_search_total_score |-> FloatField(0),
             agentic_search_total_score |-> FloatField(0),
             key_differences |-> StrListField,
             simple_search_strengths |-> StrListField,
             simple_search_weaknesses |-> StrListField,
             agentic_search_strengths |-> StrListField,
             agentic_search_weaknesses |-> StrListField,
             recommendation |-> StrField(""),
             cost_effectiveness_analysis |-> StrField("")]

FieldNames(name) == DOMAIN Schema(name)

\* fields declared as a list of objects
ModelListFields(name) == {f \in FieldNames(name) : Schema(name)[f].kind = "models"}

\* does a JSON value satisfy a declaration (every field has a default, so a
\* missing field is never an error; unknown keys are ignored)
RECURSIVE ValidModel(_, _)
RECURSIVE ValidValue(_, _)
ValidValue(fs, x) ==
    CASE fs.kind = "str" -> x.t = "string"
      [] fs.kind \in {"int", "float"} -> x.t = "number"
      [] fs.kind = "bool" -> x.t = "boolean"
      [] fs.kind = "strlist" ->
            x.t = "array" /\ \A i \in 1..Len(x.v) : x.v[i].t = "string"
      [] fs.kind = "dict" -> x.t = "object"
      [] fs.kind = "models" ->
            x.t = "array" /\ \A i \in 1..Len(x.v) : ValidModel(fs.of, x.v[i])
      [] fs.kind = "optmodel" -> x.t = "null" \/ ValidModel(fs.of, x)
      [] fs.kind = "optstr" -> x.t \in {"null", "string"}

ValidModel(name, x) ==
    /\ x.t = "object"
    /\ \A f \in DOMAIN x.v \cap FieldNames(name) : ValidValue(Schema(name)[f], x.v[f])

\* the object built from a valid value: defaults for what is missing
RECURSIVE BuildModel(_, _)
RECURSIVE BuildValue(_, _)
BuildValue(fs, x) ==
    CASE fs.kind = "models" -> JList([i \in 1..Len(x.v) |-> BuildModel(fs.of, x.v[i])])
      [] fs.kind = "optmodel" -> IF x.t = "null" THEN x ELSE BuildModel(fs.of, x)
      [] OTHER -> x

BuildModel(name, x) ==
    JObj([f \in FieldNames(name) |->
            IF f \in DOMAIN x.v THEN BuildValue(Schema(name)[f], x.v[f])
            ELSE Schema(name)[f].default])

\* ------------------------------------------------------------ data model
\* Finding texts: cA and cA2 agree on their first 80 characters
cA == Pad("a", KeyLen) \o <<"x">>
cA2 == Pad("a", KeyLen) \o <<"y">>
cB == <<"b">>

Finding(c, s) == [content |-> c, source |-> s]
FA == Finding(cA, "s1")
FA2 == Finding(cA2, "s2")
FB == Finding(cB, "s1")
Findings == {FA, FA2, FB}

Evidence(t, u, m) == [title |-> t, url |-> u, summary |-> m]
EU1 == Evidence("t1", "u1", "m1")
EU1b == Evidence("t1b", "u1", "m1b")
EU2 == Evidence("t2", "u2", "m2")
EE == Evidence("t0", "", "m0")
Evidences == {EU1, EU1b, EU2, EE}

SearchPlanOutput(o, areas) == [objective |-> o, research_areas |-> areas]
PlanA == SearchPlanOutput("objective A", <<"area A">>)
PlanR == SearchPlanOutput("objective revised by user", <<"area A", "area R">>)
PlanB == SearchPlanOutput("objective refined by evaluator", <<"area B">>)

\* what the planner may return: at creation, at the user's revision
PlannerOutputs == {PlanA}
RevisedPlannerOutputs == {PlanR}

\* what the researcher may return (ResearchResultOutput)
ResearchResultOutput(fs, es) == [findings |-> fs, evidence |-> es, summary |-> "summary"]

ResearchOutputs ==
    { ResearchResultOutput(<<>>, <<>>),
      ResearchResultOutput(<<FA2, FB>>, <<EE, EU2>>),
      ResearchResultOutput(<<FA, FA2>>, <<EU1, EU1b>>),
      ResearchResultOutput(<<>>, <<EU1b>>) }

\* what the fact-checker may return (FactCheckResultOutput); the score is a
\* fraction <<numerator, denominator>> within [0, 1]
VerifiedFinding(c) == [content |-> c, source |-> "checked"]
VerifiedEvidence(u, o) ==
    [title |-> "checked", url |-> u, original_url |-> o, summary |-> "checked"]
RemovedFinding(c, r) == [content |-> c, reason |-> r]
RemovedEvidence(o, r) == [original_url |-> o, reason |-> r]

FactCheckResultOutput(ve, re, vf, rf, sm, tv, tr, rs) ==
    [verified_evidences |-> ve, removed_evidences |-> re,
     verified_findings |-> vf, removed_findings |-> rf,
     verification_summary |-> sm, total_verified |-> tv,
     total_removed |-> tr, reliability_score |-> rs]

FactCheckOutputs ==
    { \* every field at its schema default
      FactCheckResultOutput(<<>>, <<>>, <<>>, <<>>, "", 0, 0, <<0, 1>>),
      \* everything passes; a text is echoed altered, a URL replaced
      FactCheckResultOutput(<<VerifiedEvidence("r1", "u1"), VerifiedEvidence("u2", "")>>,
                            <<>>,
                            <<VerifiedFinding(cA2), VerifiedFinding(cB)>>,
                            <<>>, "ok", 4, 0, <<1, 1>>),
      \* some pass, some are removed
      FactCheckResultOutput(<<VerifiedEvidence("u1", "")>>,
                            <<RemovedEvidence("u2", "dead link")>>,
                            <<VerifiedFinding(cB)>>,
                            <<RemovedFinding(cA, "unsupported")>>,
                            "mixed", 2, 2, <<1, 2>>),
      \* everything removed; the score does not match the counts
      FactCheckResultOutput(<<>>, <<RemovedEvidence("u1", "dead link")>>,
                            <<>>, <<RemovedFinding(cA, "fabricated")>>,
                            "rejected", 0, 2, <<1, 2>>) }

\* what the evaluator may return (EvaluationOutput)
\* the six sub-scores, in the order of the schema
Scores(o, c, d, a, cr, q) == <<o, c, d, a, cr, q>>

EvaluationOutput(s, overall, gaps, refine, strategy, plan) ==
    [iteration_number |-> 1,
     objective_achievement_score |-> s[1],
     coverage_score |-> s[2],
     depth_insight_score |-> s[3],
     actionability_score |-> s[4],
     credibility_score |-> s[5],
     quantitative_score |-> s[6],
     coverage_gaps |-> gaps,
     overall_quality_score |-> overall,
     should_refine |-> refine,
     refinement_strategy |-> strategy,
     refined_plan |-> plan]

\* the plan object validate_json built, as the loop reads it
AsPlan(obj) ==
    [objective |-> obj.v.objective.v,
     research_areas |-> [i \in 1..Len(obj.v.research_areas.v) |->
                            obj.v.research_areas.v[i].v]]

\* the EvaluationOutput object validate_json built, as the loop reads it
AsEvaluation(obj) ==
    [iteration_number |-> obj.v.iteration_number.v,
     objective_achievement_score |-> obj.v.objective_achievement_score.v,
     coverage_score |-> obj.v.coverage_score.v,
     depth_insight_score |-> obj.v.depth_insight_score.v,
     actionability_score |-> obj.v.actionability_score.v,
     credibility_score |-> obj.v.credibility_score.v,
     quantitative_score |-> obj.v.quantitative_score.v,
     coverage_gaps |-> [i \in 1..Len(obj.v.coverage_gaps.v) |->
                           obj.v.coverage_gaps.v[i].v],
     overall_quality_score |-> obj.v.overall_quality_score.v,
     should_refine |-> obj.v.should_refine.v,
     refinement_strategy |->
         IF obj.v.refinement_strategy.t = "null" THEN None
         ELSE Some(obj.v.refinement_strategy.v),
     refined_plan |->
         IF obj.v.refined_plan.t = "null" THEN None
         ELSE AsPlan(obj.v.refined_plan)]

\* an evaluator output that gives scores and a strategy and leaves out
\* should_refine, coverage_gaps, refined_plan and iteration_number
WithoutStopSignal ==
    JObj([objective_achievement_score |-> JNum(5),
          coverage_score |-> JNum(6),
          depth_insight_score |-> JNum(7),
          actionability_score |-> JNum(8),
          credibility_score |-> JNum(9),
          quantitative_score |-> JNum(5),
          overall_quality_score |-> JNum(40),
          refinement_strategy |-> JStr("deepen")])

EvaluationOutputs ==
    { \* a strategy but no gap listed, decoded from a document that leaves
      \* out should_refine
      AsEvaluation(BuildModel("EvaluationOutput", WithoutStopSignal)),
      \* six gaps, no strategy, a revised plan; the total is not the sum
      EvaluationOutput(Scores(10, 10, 10, 10, 10, 10), 40,
                       <<"g1", "g2", "g3", "g4", "g5", "g6">>, TRUE,
                       None, PlanB),
      \* every field at its default but should_refine
      EvaluationOutput(Scores(0, 0, 0, 0, 0, 0), 0, <<>>, FALSE, None, None),
      \* satisfied, yet with gaps, a strategy and a revised plan
      EvaluationOutput(Scores(9, 9, 9, 9, 9, 9), 54, <<"g1">>, FALSE,
                       Some("polish"), PlanB) }

\* lines the user may type at the confirmation prompt
UserLines == {<<>>, <<" ">>, <<" ", "x", " ">>}
Whitespace == {" ", "\t"}

RECURSIVE LStrip(_)
LStrip(s) == IF s # <<>> /\ Head(s) \in Whitespace THEN LStrip(Tail(s)) ELSE s

RECURSIVE RStrip(_)
RStrip(s) ==
    IF s # <<>> /\ s[Len(s)] \in Whitespace
    THEN RStrip(SubSeq(s, 1, Len(s) - 1)) ELSE s

\* variant: the line is taken as typed
StripNone(s) == s

\* str.strip()
Strip(s) == RStrip(LStrip(s))

\* ---------------------------------------------------------------- prompts
\* A prompt is the sequence of the pieces of text its f-string is put
\* together from: a fixed piece is one token, an interpolated value is the
\* text of the value.
Text(v) == ToString(v)

\* chr(10).join(f'...' for x in s): one line per element
Lines(s, Line(_)) == [i \in 1..Len(s) |-> Line(s[i])]

\* f"{x:.0%}": whole percent, ties to even
Percent0(q) ==
    LET whole == (100 * q[1]) \div q[2]
        rest == (100 * q[1]) % q[2]
    IN  IF 2 * rest > q[2] \/ (2 * rest = q[2] /\ whole % 2 = 1)
        THEN whole + 1 ELSE whole

\* slices of the context handed to the researcher
ContextFindings == 10
ContextLen == 80
ContextEvidence == 8
ContextReasons == 5
ContextGaps == 5

\* slices of the texts handed to the fact-checker and to the evaluator
CheckedLen == 100
EvaluatedFindings == 15
EvaluatedEvidence == 10
PastGaps == 3

\* variant: the first entry of the history
FirstFc(h) == h[1]

\* latest_fc = fact_check_history[-1]
LatestFc(h) == h[Len(h)]

\* previous_context
PreviousContext(af, ae, fch) ==
    (IF af # <<>>
     THEN <<"ACCEPTED_FINDINGS", ToString(Len(af))>>
          \o Lines(Take(af, ContextFindings),
                   LAMBDA f : Text(Take(f.content, ContextLen)))
     ELSE <<>>)
    \o (IF ae # <<>>
        THEN <<"ACCEPTED_EVIDENCE", ToString(Len(ae))>>
             \o Lines(Take(ae, ContextEvidence),
                      LAMBDA e : Text(<<e.url, e.title>>))
        ELSE <<>>)
    \o (IF fch # <<>>
        THEN LET latest_fc == LatestFc(fch) IN
             <<"LATEST_FACT_CHECK", ToString(latest_fc.verified),
               ToString(latest_fc.removed),
               ToString(Percent1(latest_fc.reliability))>>
             \o (IF latest_fc.removed_reasons # <<>>
                 THEN <<"REMOVED_PATTERNS">>
                      \o Lines(Take(latest_fc.removed_reasons, ContextReasons),
                               LAMBDA reason : Text(reason))
                      \o <<"DO_NOT_REPEAT">>
                 ELSE <<>>)
        ELSE <<>>)

\* last_eval.refinement_strategy or '...'
StrategyOrDefault(strategy) ==
    IF strategy = None \/ strategy.some = "" THEN "NO_STRATEGY"
    ELSE strategy.some

\* improvement_instruction
ImprovementInstruction(evals) ==
    IF evals # <<>>
    THEN LET last_eval == evals[Len(evals)] IN
         IF last_eval.coverage_gaps # <<>>
         THEN <<"IMPROVEMENT_REQUEST",
                ToString(last_eval.overall_quality_score),
                ToString(last_eval.credibility_score), "GAPS">>
              \o Take(last_eval.coverage_gaps, ContextGaps)
              \o <<"STRATEGY", StrategyOrDefault(last_eval.refinement_strategy)>>
         ELSE <<>>
    ELSE <<>>

\* evidence_section, findings_section
CheckedSection(result) ==
    <<"CHECK_EVIDENCE">>
    \o (IF result.evidence = <<>> THEN <<"NO_EVIDENCE">>
        ELSE Lines(result.evidence,
                   LAMBDA e : Text(<<e.title, e.url, e.summary>>)))
    \o <<"CHECK_FINDINGS">>
    \o (IF result.findings = <<>> THEN <<"NO_FINDINGS">>
        ELSE Lines(result.findings,
                   LAMBDA f : Text(<<Take(f.content, CheckedLen), f.source>>)))

\* past_eval_summary
PastEvalSummary(evals) ==
    IF evals # <<>>
    THEN <<"PAST_EVALUATIONS">>
         \o Lines(evals,
                  LAMBDA ev : Text(<<ev.iteration_number,
                                     ev.overall_quality_score,
                                     ev.objective_achievement_score,
                                     ev.coverage_score, ev.depth_insight_score,
                                     ev.actionability_score,
                                     ev.credibility_score,
                                     ev.quantitative_score,
                                     Take(ev.coverage_gaps, PastGaps)>>))
    ELSE <<>>

\* fact_check_section
FactCheckSection(fch) ==
    IF fch # <<>>
    THEN LET latest_fc == LatestFc(fch) IN
         <<"FACT_CHECK_RESULT", ToString(latest_fc.verified),
           ToString(latest_fc.removed),
           ToString(Percent1(latest_fc.reliability)), latest_fc.summary>>
         \o (IF latest_fc.removed > 0
             THEN <<"REMOVAL_RATE",
                    ToString(Percent0(<<latest_fc.removed,
                                        Max(latest_fc.verified
                                            + latest_fc.removed, 1)>>))>>
             ELSE <<>>)
         \o (IF Len(fch) > 1
             THEN <<"FACT_CHECK_HISTORY">>
                  \o Lines(fch,
                           LAMBDA fc : Text(<<fc.iteration, fc.verified,
                                              fc.removed,
                                              Percent1(fc.reliability)>>))
             ELSE <<>>)
    ELSE <<>>

\* variant: only the first finding and the first evidence are listed
EvaluatedSectionFirst(result) ==
    <<"RESULT_FINDINGS", ToString(Len(result.findings))>>
    \o Lines(Take(result.findings, 1),
             LAMBDA f : Text(<<f.content, f.source>>))
    \o <<"RESULT_EVIDENCE">>
    \o Lines(Take(result.evidence, 1),
             LAMBDA e : Text(<<e.title, e.url, e.summary>>))
    \o <<ToString(Len(result.evidence)), "RESULT_SUMMARY", result.summary>>

\* the part of evaluator_prompt that renders current_result
EvaluatedSection(result) ==
    <<"RESULT_FINDINGS", ToString(Len(result.findings))>>
    \o Lines(Take(result.findings, EvaluatedFindings),
             LAMBDA f : Text(<<f.content, f.source>>))
    \o <<"RESULT_EVIDENCE">>
    \o Lines(Take(result.evidence, EvaluatedEvidence),
             LAMBDA e : Text(<<e.title, e.url, e.summary>>))
    \o <<ToString(Len(result.evidence)), "RESULT_SUMMARY", result.summary>>

PlannerPrompt == <<"Planner", "create">>

RefinementPrompt(plan, inp) ==
    <<"Planner", "revise", plan.objective>> \o plan.research_areas \o inp

ResearcherPrompt(it, plan, af, ae, fch, evals) ==
    <<"Researcher", ToString(it), plan.objective>> \o plan.research_areas
    \o PreviousContext(af, ae, fch) \o ImprovementInstruction(evals)

FactCheckPrompt(result) == <<"FactChecker">> \o CheckedSection(result)

\* the header carries "{iteration}/{max_iterations}"
EvaluatorPrompt(it, mx, plan, result, fch, evals) ==
    <<"Evaluator", ToString(it), ToString(mx), plan.objective>>
    \o EvaluatedSection(result) \o FactCheckSection(fch)
    \o PastEvalSummary(evals)

\* ------------------------------------------------- fact-check bookkeeping
\* variant: the whole content is the key
KeyWhole(f) == f.content

\* f.content[:80]
Key(f) == Take(f.content, KeyLen)

\* variant: every finding the fact-checker reported on counts
VerifiedContentsReported(fc) ==
    {Key(vf) : vf \in Range(fc.verified_findings)}
        \cup {Key(rf) : rf \in Range(fc.removed_findings)}

\* verified_contents
VerifiedContents(fc) == {Key(vf) : vf \in Range(fc.verified_findings)}

\* variant: only the url echoed by the fact-checker counts
VerifiedUrlsEchoed(fc) ==
    {ve.url : ve \in Range(fc.verified_evidences)} \ {""}

\* verified_urls
VerifiedUrls(fc) ==
    LET Original(ve) == IF ve.original_url # "" THEN ve.original_url ELSE ve.url
    IN {u \in UNION {{Original(ve), ve.url} : ve \in Range(fc.verified_evidences)} :
            u # ""}

\* variant: every finding of the researcher is taken over
IterationAcceptedFindingsAll(result, fc) == result.findings

\* iteration_accepted_findings
IterationAcceptedFindings(result, fc) ==
    SelectSeq(result.findings, LAMBDA f : Key(f) \in VerifiedContents(fc))

\* variant: the fact-checker's verified evidence is taken over
IterationAcceptedEvidenceEchoed(result, fc) ==
    [i \in 1..Len(fc.verified_evidences) |->
        Evidence(fc.verified_evidences[i].title, fc.verified_evidences[i].url,
                 fc.verified_evidences[i].summary)]

\* iteration_accepted_evidence
IterationAcceptedEvidence(result, fc) ==
    SelectSeq(result.evidence, LAMBDA e : e.url \in VerifiedUrls(fc))

\* variant: accepted_findings.insert(0, f)
InsertFindingFront(pool, f) ==
    IF Key(f) \notin {Key(g) : g \in Range(pool)} THEN <<f>> \o pool ELSE pool

\* one turn of the loop over iteration_accepted_findings
InsertFinding(pool, f) ==
    IF Key(f) \notin {Key(g) : g \in Range(pool)} THEN Append(pool, f) ELSE pool

RECURSIVE AccumulateFindings(_, _)
AccumulateFindings(pool, items) ==
    IF items = <<>> THEN pool
    ELSE AccumulateFindings(InsertFinding(pool, Head(items)), Tail(items))

\* variant: if e.url
InsertEvidenceUnchecked(pool, e) ==
    IF e.url # "" THEN Append(pool, e) ELSE pool

\* variant: if e.url not in existing_urls
InsertEvidenceAnyUrl(pool, e) ==
    IF e.url \notin {g.url : g \in Range(pool)} THEN Append(pool, e) ELSE pool

\* one turn of the loop over iteration_accepted_evidence
InsertEvidence(pool, e) ==
    IF e.url # "" /\ e.url \notin {g.url : g \in Range(pool)}
    THEN Append(pool, e) ELSE pool

RECURSIVE AccumulateEvidence(_, _)
AccumulateEvidence(pool, items) ==
    IF items = <<>> THEN pool
    ELSE AccumulateEvidence(InsertEvidence(pool, Head(items)), Tail(items))

\* removed_reasons
RemovedReasons(fc) ==
    [i \in 1..Len(fc.removed_findings) |->
        <<"finding", Take(fc.removed_findings[i].content, ReasonLen),
          fc.removed_findings[i].reason>>]
    \o
    [i \in 1..Len(fc.removed_evidences) |->
        <<"url", <<fc.removed_evidences[i].original_url>>,
          fc.removed_evidences[i].reason>>]

\* entry appended to fact_check_history after a fact-check
HistoryEntry(it, fc) ==
    [iteration |-> it,
     verified |-> fc.total_verified,
     removed |-> fc.total_removed,
     reliability |-> fc.reliability_score,
     removed_reasons |-> RemovedReasons(fc),
     summary |-> fc.verification_summary]

\* variant: the entry of a skipped fact-check carries no iteration number
SkippedEntryUnnumbered(it) ==
    [iteration |-> 0, verified |-> 0, removed |-> 0, reliability |-> <<0, 1>>,
     removed_reasons |-> <<>>, summary |-> "skipped"]

\* entry appended when the fact-check is skipped
SkippedEntry(it) ==
    [iteration |-> it, verified |-> 0, removed |-> 0, reliability |-> <<0, 1>>,
     removed_reasons |-> <<>>, summary |-> "skipped"]

\* variant: only evidence that carries a url is recorded
RawRecordWithUrl(it, result) ==
    [iteration |-> it,
     findings |-> [i \in 1..Len(result.findings) |->
                     [content |-> result.findings[i].content,
                      source |-> result.findings[i].source]],
     evidence |-> SelectSeq([i \in 1..Len(result.evidence) |->
                               [title |-> result.evidence[i].title,
                                url |-> result.evidence[i].url,
                                summary |-> result.evidence[i].summary]],
                            LAMBDA e : e.url # ""),
     summary |-> result.summary]

\* entry appended to raw_results
RawRecord(it, result) ==
    [iteration |-> it,
     findings |-> [i \in 1..Len(result.findings) |->
                     [content |-> result.findings[i].content,
                      source |-> result.findings[i].source]],
     evidence |-> [i \in 1..Len(result.evidence) |->
                     [title |-> result.evidence[i].title,
                      url |-> result.evidence[i].url,
                      summary |-> result.evidence[i].summary]],
     summary |-> result.summary]

\* variant: not has_evidence or not has_findings
SkipFactCheckEither(result) == result.evidence = <<>> \/ result.findings = <<>>

\* not has_evidence and not has_findings
SkipFactCheck(result) == result.evidence = <<>> /\ result.findings = <<>>

\* variant: the evaluator's iteration_number is kept
StampIterationKeep(ev, it) == ev

\* evaluation.iteration_number = iteration
StampIteration(ev, it) == [ev EXCEPT !.iteration_number = it]

\* variant: iteration >= max_iterations - 1
StopConditionEarly(ev, it, mx) == ~ev.should_refine \/ it >= mx - 1

\* variant: the evaluator's decision is not consulted
StopConditionBudgetOnly(ev, it, mx) == it >= mx

\* not evaluation.should_refine or iteration >= max_iterations
StopCondition(ev, it, mx) == ~ev.should_refine \/ it >= mx

\* range(1, max_iterations + 1)
\* variant: range(1, max_iterations)
LoopRangeExclusive(mx) == 1..(mx - 1)

\* range(1, max_iterations + 1)
LoopRange(mx) == 1..mx

\* variant: the loop variable is not advanced
NextIterationSame(it) == it

\* the for loop's step from one iteration to the next
NextIteration(it) == it + 1

\* variant: an empty pool leaves the researcher's last output in place
FinalizeKeepRaw(result, af, ae) ==
    IF result = None THEN None
    ELSE [result EXCEPT !.findings = IF af # <<>> THEN af ELSE @,
                        !.evidence = IF ae # <<>> THEN ae ELSE @]

\* overwrite of current_result.findings / .evidence after the loop
Finalize(result, af, ae) ==
    IF result = None THEN None
    ELSE [result EXCEPT !.findings = IF af # <<>> THEN af ELSE <<>>,
                        !.evidence = IF ae # <<>> THEN ae ELSE <<>>]

\* ------------------------------------------------------------------ states
\* the locals of run_agentic_research when no run is in progress
NoRun ==
    /\ iteration = 0
    /\ user_input = <<>>
    /\ current_plan = None
    /\ current_result = None
    /\ fact_check = None
    /\ evaluations = <<>>
    /\ raw_results = <<>>
    /\ accepted_findings = <<>>
    /\ accepted_evidence = <<>>
    /\ fact_check_history = <<>>
    /\ verdicts = <<>>

\* a run of run_agentic_research(theme, max_iterations) up to its first call
Init ==
    /\ pc = "plan"
    /\ args = None
    /\ max_retries = MAX_PARSE_RETRIES
    /\ prompt = PlannerPrompt
    /\ attempt = 0
    /\ last_error = None
    /\ sent = <<>>
    /\ raised = None
    /\ ret = None
    /\ max_iterations \in 1..MaxIter
    /\ NoRun

\* a call _run_with_retry(agent, prompt, output_type, max_retries=k)
InitRetry ==
    /\ pc = "standalone"
    /\ args = None
    /\ max_retries \in 0..MaxRetriesBound
    /\ prompt \in Prompts
    /\ attempt = 0
    /\ last_error = None
    /\ sent = <<>>
    /\ raised = None
    /\ ret = None
    /\ max_iterations = 0
    /\ NoRun

\* ----------------------------------------------------- wrapper: failures
\* The exception e leaves the function: its locals and its caller's are gone.
Raise(e) ==
    /\ pc' = "raised"
    /\ raised' = e
    /\ attempt' = 0
    /\ last_error' = None
    /\ iteration' = 0
    /\ user_input' = <<>>
    /\ current_plan' = None
    /\ current_result' = None
    /\ fact_check' = None
    /\ evaluations' = <<>>
    /\ raw_results' = <<>>
    /\ accepted_findings' = <<>>
    /\ accepted_evidence' = <<>>
    /\ fact_check_history' = <<>>
    /\ verdicts' = <<>>
    /\ UNCHANGED <<max_retries, prompt, ret, max_iterations>>

\* Runner.run (or final_output_as) raised e on this attempt
Fail(e) ==
    /\ UNCHANGED args
    /\ sent' = Capture
    /\ IF Caught(e)
       THEN IF attempt + 1 \in RetryRange(max_retries)
            THEN /\ attempt' = attempt + 1
                 /\ last_error' = RecordError(last_error, e)
                 /\ UNCHANGED <<pc, max_retries, prompt, raised, ret>>
                 /\ UNCHANGED loopVars
            ELSE Raise(RecordError(last_error, e))    \* raise last_error
       ELSE Raise(e)

RunnerRaisesMalformed ==
    /\ InRetryLoop
    /\ Fail(ModelBehaviorError(Len(sent) + 1))

RunnerRaisesOther ==
    /\ InRetryLoop
    /\ \E k \in OtherKinds : Fail(OtherError(k, Len(sent) + 1))

\* variant: the failure recorded by an earlier attempt is surfaced as well
StandaloneReturnsSurfacing ==
    /\ UNCHANGED args
    /\ pc = "standalone"
    /\ InRetryLoop
    /\ \E out \in Outputs :
        /\ ret' = out
        /\ pc' = "returned"
        /\ sent' = Capture
        /\ attempt' = 0
        /\ last_error' = None
        /\ raised' = last_error
        /\ UNCHANGED <<max_retries, prompt>>
        /\ UNCHANGED loopVars

\* a standalone wrapped call returns the parsed output
StandaloneReturns ==
    /\ UNCHANGED args
    /\ pc = "standalone"
    /\ InRetryLoop
    /\ \E out \in Outputs :
        /\ ret' = out
        /\ pc' = "returned"
        /\ sent' = Capture
        /\ attempt' = 0
        /\ last_error' = None
        /\ UNCHANGED <<max_retries, prompt, raised>>
        /\ UNCHANGED loopVars

NextRetry == StandaloneReturns \/ RunnerRaisesMalformed \/ RunnerRaisesOther

SpecRetry == InitRetry /\ [][NextRetry]_vars

\* ----------------------------------------- wrapped calls, one after another
\* A caller that awaits wrapped calls in sequence, as run_agentic_research
\* does; args is the caller's note of the Invoker calls each finished call
\* took.
InitSequence ==
    /\ pc = "standalone"
    /\ args = Some(<<>>)
    /\ max_retries \in 0..MaxRetriesBound
    /\ prompt \in Prompts
    /\ attempt = 0
    /\ last_error = None
    /\ sent = <<>>
    /\ raised = None
    /\ ret = None
    /\ max_iterations = 0
    /\ NoRun

\* the next wrapped call of the caller, after the one before has returned
CallAgain ==
    /\ pc = "returned"
    /\ args # None
    /\ Len(args.some) + 1 < MaxCalls
    /\ args' = Some(Append(args.some, Len(sent)))
    /\ \E p \in Prompts : StartCall("standalone", p)
    /\ UNCHANGED <<raised, ret>>
    /\ UNCHANGED loopVars

NextSequence ==
    \/ StandaloneReturns
    \/ RunnerRaisesMalformed
    \/ RunnerRaisesOther
    \/ CallAgain

SpecSequence == InitSequence /\ [][NextSequence]_vars

\* ------------------------------------------------ run_agentic_research
\* planner call of the initial plan returns
PlanReturns ==
    /\ UNCHANGED args
    /\ pc = "plan"
    /\ InRetryLoop
    /\ \E plan \in PlannerOutputs : current_plan' = plan
    /\ pc' = "input"
    /\ sent' = Capture
    /\ attempt' = 0
    /\ last_error' = None
    /\ UNCHANGED <<max_retries, prompt, raised, ret, max_iterations, iteration,
                   user_input, current_result, fact_check, evaluations,
                   raw_results, accepted_findings, accepted_evidence,
                   fact_check_history, verdicts>>

\* the tuple returned when the for loop has no iteration to run
Unresearched(plan) ==
    [plan |-> plan, result |-> Finalize(None, <<>>, <<>>),
     evaluations |-> <<>>, fact_check_history |-> <<>>, raw_results |-> <<>>]

\* user_input = input().strip(); a non-empty instruction starts the revision
ReadInput ==
    /\ UNCHANGED args
    /\ pc = "input"
    /\ \E line \in UserLines :
        LET inp == Strip(line) IN
        /\ user_input' = inp
        /\ IF inp # <<>>
           THEN /\ StartCall("revise", RefinementPrompt(current_plan, inp))
                /\ UNCHANGED <<iteration, ret>>
           ELSE IF 1 \in LoopRange(max_iterations)
           THEN /\ StartCall("research",
                             ResearcherPrompt(1, current_plan,
                                              accepted_findings,
                                              accepted_evidence,
                                              fact_check_history, evaluations))
                /\ iteration' = 1
                /\ UNCHANGED ret
           ELSE \* the loop body never runs
                /\ ret' = Unresearched(current_plan)
                /\ pc' = "returned"
                /\ UNCHANGED <<max_retries, prompt, attempt, last_error, sent,
                               iteration>>
    /\ UNCHANGED <<raised, max_iterations, current_plan, current_result,
                   fact_check, evaluations, raw_results, accepted_findings,
                   accepted_evidence, fact_check_history, verdicts>>

\* planner call of the revised plan returns; the loop starts
RevisedPlanReturns ==
    /\ UNCHANGED args
    /\ pc = "revise"
    /\ InRetryLoop
    /\ \E plan \in RevisedPlannerOutputs :
        /\ current_plan' = plan
        /\ IF 1 \in LoopRange(max_iterations)
           THEN /\ StartCall("research",
                             ResearcherPrompt(1, plan, accepted_findings,
                                              accepted_evidence,
                                              fact_check_history, evaluations))
                /\ iteration' = 1
                /\ UNCHANGED ret
           ELSE \* the loop body never runs
                /\ ret' = Unresearched(plan)
                /\ pc' = "returned"
                /\ sent' = Capture
                /\ attempt' = 0
                /\ last_error' = None
                /\ UNCHANGED <<max_retries, prompt, iteration>>
    /\ UNCHANGED <<raised, max_iterations, user_input, current_result,
                   fact_check, evaluations, raw_results, accepted_findings,
                   accepted_evidence, fact_check_history, verdicts>>

\* researcher call returns; raw record; fact-check gating
ResearcherReturns ==
    /\ UNCHANGED args
    /\ pc = "research"
    /\ InRetryLoop
    /\ \E result \in ResearchOutputs :
        /\ current_result' = result
        /\ raw_results' = Append(raw_results, RawRecord(iteration, result))
        /\ IF SkipFactCheck(result)
           THEN /\ fact_check' = None
                /\ verdicts' = Append(verdicts, None)
                /\ fact_check_history' =
                       Append(fact_check_history, SkippedEntry(iteration))
                /\ StartCall("evaluate",
                             EvaluatorPrompt(iteration, max_iterations,
                                             current_plan, result,
                                             fact_check_history', evaluations))
           ELSE /\ StartCall("factcheck", FactCheckPrompt(result))
                /\ UNCHANGED <<fact_check, verdicts, fact_check_history>>
    /\ UNCHANGED <<raised, ret, max_iterations, iteration, user_input,
                   current_plan, evaluations, accepted_findings,
                   accepted_evidence>>

\* fact-checker call returns; history entry; extraction; accumulation
FactCheckReturns ==
    /\ UNCHANGED args
    /\ pc = "factcheck"
    /\ InRetryLoop
    /\ \E fc \in FactCheckOutputs :
        /\ fact_check' = fc
        /\ verdicts' = Append(verdicts, fc)
        /\ fact_check_history' =
               Append(fact_check_history, HistoryEntry(iteration, fc))
        /\ accepted_findings' =
               AccumulateFindings(accepted_findings,
                                  IterationAcceptedFindings(current_result, fc))
        /\ accepted_evidence' =
               AccumulateEvidence(accepted_evidence,
                                  IterationAcceptedEvidence(current_result, fc))
    /\ StartCall("evaluate",
                 EvaluatorPrompt(iteration, max_iterations, current_plan,
                                 current_result, fact_check_history',
                                 evaluations))
    /\ UNCHANGED <<raised, ret, max_iterations, iteration, user_input,
                   current_plan, current_result, evaluations, raw_results>>

\* variant: the revised plan only replaces the objective of the plan in use
RevisePlanObjective(plan, evaluation) ==
    IF evaluation.refined_plan # None
    THEN [plan EXCEPT !.objective = evaluation.refined_plan.objective]
    ELSE plan

\* if evaluation.refined_plan: current_plan = evaluation.refined_plan
RevisePlan(plan, evaluation) ==
    IF evaluation.refined_plan # None THEN evaluation.refined_plan ELSE plan

\* evaluator call returns; termination check; plan revision or finalization
EvaluatorReturns ==
    /\ UNCHANGED args
    /\ pc = "evaluate"
    /\ InRetryLoop
    /\ \E out \in EvaluationOutputs :
        LET evaluation == StampIteration(out, iteration)
            history == Append(evaluations, evaluation)
            plan == RevisePlan(current_plan, evaluation)
            final == Finalize(current_result, accepted_findings, accepted_evidence)
        IN
        /\ evaluations' = history
        /\ IF StopCondition(evaluation, iteration, max_iterations)
           THEN \* break
                /\ current_result' = final
                /\ ret' = [plan |-> current_plan, result |-> final,
                           evaluations |-> history,
                           fact_check_history |-> fact_check_history,
                           raw_results |-> raw_results]
                /\ pc' = "returned"
                /\ sent' = Capture
                /\ attempt' = 0
                /\ last_error' = None
                /\ UNCHANGED <<max_retries, prompt, iteration, current_plan>>
           ELSE IF NextIteration(iteration) \in LoopRange(max_iterations)
           THEN /\ current_plan' = plan
                /\ iteration' = NextIteration(iteration)
                /\ StartCall("research",
                             ResearcherPrompt(NextIteration(iteration), plan,
                                              accepted_findings,
                                              accepted_evidence,
                                              fact_check_history, history))
                /\ UNCHANGED <<current_result, ret>>
           ELSE \* the for loop is exhausted
                /\ current_plan' = plan
                /\ current_result' = final
                /\ ret' = [plan |-> plan, result |-> final,
                           evaluations |-> history,
                           fact_check_history |-> fact_check_history,
                           raw_results |-> raw_results]
                /\ pc' = "returned"
                /\ sent' = Capture
                /\ attempt' = 0
                /\ last_error' = None
                /\ UNCHANGED <<max_retries, prompt, iteration>>
    /\ UNCHANGED <<raised, max_iterations, user_input, fact_check, raw_results,
                   accepted_findings, accepted_evidence, fact_check_history,
                   verdicts>>

Next ==
    \/ PlanReturns
    \/ ReadInput
    \/ RevisedPlanReturns
    \/ ResearcherReturns
    \/ FactCheckReturns
    \/ EvaluatorReturns
    \/ RunnerRaisesMalformed
    \/ RunnerRaisesOther

Spec == Init /\ [][Next]_vars

\* the same run where every awaited call returns or raises and the read of
\* the user's line returns
SpecLive == Init /\ [][Next]_vars /\ WF_vars(Next)

\* ------------------------------------------------- format_markdown_output
\* The fact-check part of the agentic report (src/main.py): the cumulative
\* totals of the summary table and the rows of the history table.
MaxHistory == 2         \* entries of a fact_check_history argument: 0..2
MaxCount == 2           \* verified / removed counts of an entry: 0..2


\* if fact_check_history:
Truthy(h) == h # None /\ h.some # <<>>

\* a fact_check_history entry as the formatter reads it
ReportEntry(k, v, r) ==
    [iteration |-> k, verified |-> v, removed |-> r,
     reliability |-> <<v, Max(v + r, 1)>>]

ReportHistories ==
    UNION {{[k \in 1..n |-> ReportEntry(k, c[k][1], c[k][2])] :
               c \in [1..n -> (0..MaxCount) \X (0..MaxCount)]} :
           n \in 0..MaxHistory}

\* sum(...) over a list of numbers
RECURSIVE Sum(_)
Sum(s) == IF s = <<>> THEN 0 ELSE Head(s) + Sum(Tail(s))

\* variant: the count of the latest entry
FcTotalVerifiedLatest(h) ==
    IF Truthy(h) THEN h.some[Len(h.some)].verified ELSE 0

\* fc_total_verified
FcTotalVerified(h) ==
    IF Truthy(h) THEN Sum([k \in 1..Len(h.some) |-> h.some[k].verified]) ELSE 0

\* fc_total_removed
FcTotalRemoved(h) ==
    IF Truthy(h) THEN Sum([k \in 1..Len(h.some) |-> h.some[k].removed]) ELSE 0

\* one row of the history table
HistoryRow(fc) == <<fc.iteration, fc.verified, fc.removed, Percent1(fc.reliability)>>

\* the rows of the history table (no table without history)
HistoryRows(h) ==
    IF Truthy(h) THEN [k \in 1..Len(h.some) |-> HistoryRow(h.some[k])] ELSE <<>>

AgenticReport(h) ==
    [fc_total_verified |-> FcTotalVerified(h),
     fc_total_removed |-> FcTotalRemoved(h),
     rows |-> HistoryRows(h)]

\* the totals of a comparison_result (floats of 0..60, default 0.0)
ComparisonReportOutput(s, a) ==
    [simple_search_total_score |-> s, agentic_search_total_score |-> a]

ComparisonResults ==
    {ComparisonReportOutput(s, a) : s \in {0, 30, 40}, a \in {0, 48}}

\* the exception of a float division by zero
ZeroDivisionError == [kind |-> "ZeroDivisionError"]

\* f"{x:+.1f}": the sign and the tenths of x = q[1] / q[2], ties to even
Signed1(q) ==
    LET n == IF q[1] < 0 THEN 0 - q[1] ELSE q[1]
        whole == (10 * n) \div q[2]
        rest == (10 * n) % q[2]
    IN  [sign |-> IF q[1] < 0 THEN "-" ELSE "+",
         tenths |-> IF 2 * rest > q[2] \/ (2 * rest = q[2] /\ whole % 2 = 1)
                    THEN whole + 1 ELSE whole]

\* the divisor of the total row's improvement rate
RateDivisor(c) == c.simple_search_total_score

\* (agentic - simple) / simple * 100 of the total row; the division raises
\* when the divisor is 0
TotalImprovementRate(c) ==
    IF RateDivisor(c) = 0
    THEN [raises |-> ZeroDivisionError]
    ELSE [value |-> Signed1(<<(c.agentic_search_total_score
                                  - c.simple_search_total_score) * 100,
                              RateDivisor(c)>>)]

\* the total row of the comparison report
ComparisonReport(c) ==
    [simple_total |-> c.simple_search_total_score,
     agentic_total |-> c.agentic_search_total_score,
     improvement |-> TotalImprovementRate(c).value]

\* state in which only the wrapper's and the loop's variables are idle
Idle ==
    /\ max_retries = MAX_PARSE_RETRIES
    /\ prompt = <<>>
    /\ attempt = 0
    /\ last_error = None
    /\ sent = <<>>
    /\ raised = None
    /\ ret = None
    /\ max_iterations = 0
    /\ NoRun

InitReport ==
    /\ pc = "format"
    /\ args \in {[fact_check_history |-> h, comparison_result |-> c] :
                    h \in {None} \cup {Some(s) : s \in ReportHistories},
                    c \in ComparisonResults}
    /\ Idle

FormatMarkdownOutput ==
    /\ pc = "format"
    /\ IF "raises" \in DOMAIN TotalImprovementRate(args.comparison_result)
       THEN /\ pc' = "raised"
            /\ raised' = TotalImprovementRate(args.comparison_result).raises
            /\ UNCHANGED ret
       ELSE /\ pc' = "formatted"
            /\ ret' = AgenticReport(args.fact_check_history)
                        @@ [comparison |-> ComparisonReport(args.comparison_result)]
            /\ UNCHANGED raised
    /\ UNCHANGED <<args, max_retries, prompt, attempt, last_error, sent>>
    /\ UNCHANGED loopVars

NextReport == FormatMarkdownOutput

SpecReport == InitReport /\ [][NextReport]_vars

\* ------------------------------------------- decoding in a wrapped call
\* a raw output: the JSON text either ends before its brackets are closed
\* or is the document doc; damage records how the text was produced
Payload(dmg, closed, doc) == [damage |-> dmg, closed |-> closed, doc |-> doc]

\* variant: every declared field is required
AcceptsAllRequired(name, payload) ==
    /\ payload.closed
    /\ ValidModel(name, payload.doc)
    /\ FieldNames(name) \subseteq DOMAIN payload.doc.v

\* validate_json succeeds
Accepts(name, payload) == payload.closed /\ ValidModel(name, payload.doc)

\* subsets of s with at most n elements
RECURSIVE SubsetsUpTo(_, _)
SubsetsUpTo(s, n) ==
    IF n = 0 THEN {{}}
    ELSE LET prev == SubsetsUpTo(s, n - 1)
         IN  prev \cup {p \cup {f} : p \in prev, f \in s}

\* field sets of the documents tried: few fields present, or few missing
PresentSets(name) ==
    SubsetsUpTo(FieldNames(name), MaxPresent)
    \cup {FieldNames(name) \ q : q \in SubsetsUpTo(FieldNames(name), MaxMissing)}

\* a document of the schema with every field given a value of its type
RECURSIVE FullDoc(_)
RECURSIVE Sample(_)
Sample(fs) ==
    CASE fs.kind \in {"str", "optstr"} -> JStr("x")
      [] fs.kind \in {"int", "float"} -> JNum(1)
      [] fs.kind = "bool" -> JBool(FALSE)
      [] fs.kind = "strlist" -> JList(<<JStr("x")>>)
      [] fs.kind = "dict" -> JObj([area |-> JList(<<JStr("kw")>>)])
      [] fs.kind = "models" -> JList(<<FullDoc(fs.of)>>)
      [] fs.kind = "optmodel" -> FullDoc(fs.of)

FullDoc(name) == JObj([f \in FieldNames(name) |-> Sample(Schema(name)[f])])

\* the document with only the fields of p
Restrict(doc, p) == JObj([f \in p |-> doc.v[f]])

\* what a list of objects holds after the output was cut inside an element
BadElement(k) ==
    CASE k = "string" -> JStr("{")
      [] k = "number" -> JNum(42)
      [] k = "null" -> JNull
BadKinds == {"string", "number", "null"}

\* arguments of a wrapped call whose Invoker answers with payload
Call(name, payload) == [output_type |-> name, payload |-> payload]

InitDecode ==
    /\ pc = "decode"
    /\ max_retries = MAX_PARSE_RETRIES
    /\ prompt = <<"p">>
    /\ attempt = 0
    /\ last_error = None
    /\ sent = <<>>
    /\ raised = None
    /\ ret = None
    /\ max_iterations = 0
    /\ NoRun
    /\ \E name \in SchemaNames :
          \/ \E p \in PresentSets(name) :
                \* fields missing, the text complete or cut before its end
                \/ args = Call(name, Payload("none", TRUE, Restrict(FullDoc(name), p)))
                \/ args = Call(name, Payload("truncated", FALSE,
                                             Restrict(FullDoc(name), p)))
          \/ \E g \in ModelListFields(name) :
                LET of == Schema(name)[g].of
                IN  \/ \E q \in PresentSets(of) :
                          \* a list element with fields missing
                          args = Call(name, Payload("none", TRUE,
                                    JObj([f \in {g} |->
                                        JList(<<FullDoc(of), Restrict(FullDoc(of), q)>>)])))
                    \/ \E k \in BadKinds, lead \in {<<>>, <<FullDoc(of)>>} :
                          \* a list element that is not an object
                          args = Call(name, Payload("element", TRUE,
                                    JObj([f \in {g} |->
                                        JList(lead \o <<BadElement(k)>>)])))

\* the Invoker answers a wrapped call with args.payload, on every attempt
RunnerAnswers ==
    /\ pc = "decode"
    /\ InRetryLoop
    /\ IF Accepts(args.output_type, args.payload)
       THEN /\ ret' = BuildModel(args.output_type, args.payload.doc)
            /\ pc' = "returned"
            /\ sent' = Capture
            /\ attempt' = 0
            /\ last_error' = None
            /\ UNCHANGED <<args, max_retries, prompt, raised>>
            /\ UNCHANGED loopVars
       ELSE Fail(ModelBehaviorError(Len(sent) + 1))

NextDecode == RunnerAnswers

SpecDecode == InitDecode /\ [][NextDecode]_vars

\* ------------------------------------------------------------------- main
\* One full run (src/main.py, main): single-pass search, iterative loop,
\* comparison, formatting, saving.  args holds main's locals and the files
\* of the output directory; every awaited phase returns or raises.
MainPhases == <<"simple", "agentic", "comparison", "format", "save">>

\* what run_simple_research returns
SimpleResults == {[summary |-> "s1"], [summary |-> "s2"]}

\* what run_agentic_research returns, as far as main reads it
AgenticRuns ==
    {[fact_check_history |-> <<>>, raw_results |-> <<>>],
     [fact_check_history |-> <<ReportEntry(1, 2, 1)>>,
      raw_results |-> <<[iteration |-> 1]>>]}

\* errors that leave a phase
PhaseErrors ==
    {ModelBehaviorError(1)} \cup {OtherError(k, 1) : k \in OtherKinds}

\* the files main writes, in the order of the writes; the raw data only
\* when raw_results is not empty
ReportFiles(raw) ==
    <<"simple_search", "agentic_search", "comparison">>
        \o (IF raw # <<>> THEN <<"raw_research">> ELSE <<>>)

\* variant: except Exception as e: print(...) without raise
Swallowed(e) == None

\* except Exception as e: print(...); raise
Reraised(e) == e

InitMain ==
    /\ pc = "phase_a"
    /\ args = [invoked |-> <<"simple">>, simple_result |-> None,
               agentic |-> None, comparison_result |-> None,
               reports |-> None, files |-> <<>>]
    /\ Idle

\* an exception leaves the try block of main
MainFails(e) ==
    /\ pc' = "failed"
    /\ raised' = Reraised(e)
    /\ UNCHANGED args

MainIdle ==
    /\ UNCHANGED <<max_retries, prompt, attempt, last_error, sent, ret>>
    /\ UNCHANGED loopVars

\* await run_simple_research(...)
SimpleResearchEnds ==
    /\ pc = "phase_a"
    /\ \/ \E s \in SimpleResults :
            /\ args' = [args EXCEPT !.simple_result = Some(s),
                                    !.invoked = Append(@, "agentic")]
            /\ pc' = "phase_b"
            /\ UNCHANGED raised
       \/ \E e \in PhaseErrors : MainFails(e)
    /\ MainIdle

\* await run_agentic_research(...)
AgenticResearchEnds ==
    /\ pc = "phase_b"
    /\ \/ \E r \in AgenticRuns :
            /\ args' = [args EXCEPT !.agentic = Some(r),
                                    !.invoked = Append(@, "comparison")]
            /\ pc' = "phase_c"
            /\ UNCHANGED raised
       \/ \E e \in PhaseErrors : MainFails(e)
    /\ MainIdle

\* await run_comparison_analysis(...); format_markdown_output is called as
\* soon as it returns
ComparisonEnds ==
    /\ pc = "phase_c"
    /\ \/ \E c \in ComparisonResults :
            /\ args' = [args EXCEPT !.comparison_result = Some(c),
                                    !.invoked = Append(@, "format")]
            /\ pc' = "formatting"
            /\ UNCHANGED raised
       \/ \E e \in PhaseErrors : MainFails(e)
    /\ MainIdle

\* format_markdown_output(...) returns the reports or raises
FormattingEnds ==
    /\ pc = "formatting"
    /\ LET c == args.comparison_result.some
           h == args.agentic.some.fact_check_history
       IN  IF "raises" \in DOMAIN TotalImprovementRate(c)
           THEN MainFails(TotalImprovementRate(c).raises)
           ELSE /\ args' = [args EXCEPT
                               !.reports = Some(AgenticReport(Some(h)) @@
                                             [comparison |-> ComparisonReport(c)]),
                               !.invoked = Append(@, "save")]
                /\ pc' = "saving"
                /\ UNCHANGED raised
    /\ MainIdle

\* the write_text calls: all of them succeed, or one of them raises after
\* the files before it were written
SavingEnds ==
    /\ pc = "saving"
    /\ LET files == ReportFiles(args.agentic.some.raw_results)
       IN  \/ /\ args' = [args EXCEPT !.files = files]
              /\ pc' = "saved"
              /\ UNCHANGED raised
           \/ \E n \in 0..(Len(files) - 1) :
                 /\ args' = [args EXCEPT !.files = SubSeq(files, 1, n)]
                 /\ pc' = "failed"
                 /\ raised' = Reraised(OtherError("OSError", n + 1))
    /\ MainIdle

NextMain ==
    \/ SimpleResearchEnds
    \/ AgenticResearchEnds
    \/ ComparisonEnds
    \/ FormattingEnds
    \/ SavingEnds

SpecMain == InitMain /\ [][NextMain]_vars

\* -------------------------------------------------------------- batch_run
\* The loop of batch_run over the theme files (src/batch_run.py), each one
\* run through run_from_file (src/run_from_file.py), which hands the theme
\* to main on the command line.  args holds the files, the loop index and a
\* log of what started and how it ended.
MaxThemes == 3          \* theme files of a batch: 1..MaxThemes

\* what a theme file holds: a text, nothing but blanks, or a text that the
\* argument parser of main reads as an option (it starts with "-" and has
\* no space)
ThemeKinds == {"plain", "empty", "dash"}

\* parser.parse_args() on a command line it rejects: sys.exit(2)
SystemExit == [kind |-> "SystemExit", code |-> 2]

\* how run_from_file(theme_file) can end
RunOutcomes(kind) ==
    CASE kind = "empty" -> {[returns |-> TRUE]}
      [] kind = "dash" -> {[raises |-> SystemExit]}
      [] OTHER -> {[returns |-> TRUE]} \cup {[raises |-> e] : e \in PhaseErrors}

\* variant: except BaseException
CaughtByBatchAll(e) == TRUE

\* except Exception: SystemExit is not an Exception
CaughtByBatch(e) == e.kind # "SystemExit"

Event(k, what, e) == [theme |-> k, event |-> what, error |-> e]

InitBatch ==
    /\ pc = "batch_running"
    /\ \E n \in 1..MaxThemes : \E files \in [1..n -> ThemeKinds] :
          args = [theme_files |-> files, k |-> 1,
                  log |-> <<Event(1, "start", None)>>]
    /\ Idle

\* for theme_file in theme_files: the next file, or the end of the loop
NextTheme(log) ==
    IF args.k < Len(args.theme_files)
    THEN /\ args' = [args EXCEPT !.k = @ + 1,
                        !.log = Append(log, Event(args.k + 1, "start", None))]
         /\ pc' = "batch_running"
    ELSE /\ args' = [args EXCEPT !.log = log]
         /\ pc' = "batch_done"

\* await run_from_file(...) returned
ThemeRunReturns ==
    /\ pc = "batch_running"
    /\ [returns |-> TRUE] \in RunOutcomes(args.theme_files[args.k])
    /\ NextTheme(Append(args.log, Event(args.k, "returned", None)))
    /\ UNCHANGED raised
    /\ MainIdle

\* await run_from_file(...) raised
ThemeRunRaises ==
    /\ pc = "batch_running"
    /\ \E o \in RunOutcomes(args.theme_files[args.k]) :
          /\ "raises" \in DOMAIN o
          /\ IF CaughtByBatch(o.raises)
             THEN /\ NextTheme(Append(args.log,
                                      Event(args.k, "caught", o.raises)))
                  /\ UNCHANGED raised
             ELSE /\ args' = [args EXCEPT !.log =
                                 Append(@, Event(args.k, "escaped", o.raises))]
                  /\ pc' = "failed"
                  /\ raised' = o.raises
    /\ MainIdle

NextBatch == ThemeRunReturns \/ ThemeRunRaises

SpecBatch == InitBatch /\ [][NextBatch]_vars

\* ------------------------------- run_agentic_research, one run after another
\* A caller that runs run_agentic_research again after a run has returned or
\* raised, as a batch does for its next theme; args notes that a run went
\* before.
\* variant: a list of the run before is used again
CarriedList(old) == old

\* evaluations = [], raw_results = [], accepted_findings = [], ...: every
\* call creates its lists empty
NewList(old) == <<>>

InitRuns ==
    /\ pc = "plan"
    /\ args = Some(<<>>)
    /\ max_retries = MAX_PARSE_RETRIES
    /\ prompt = PlannerPrompt
    /\ attempt = 0
    /\ last_error = None
    /\ sent = <<>>
    /\ raised = None
    /\ ret = None
    /\ max_iterations \in 1..MaxIter
    /\ NoRun

\* the next call of run_agentic_research, up to its first wrapped call
RunAgain ==
    /\ pc \in {"returned", "raised"}
    /\ args = Some(<<>>)
    /\ args' = Some(<<"earlier_run">>)
    /\ StartCall("plan", PlannerPrompt)
    /\ raised' = None
    /\ ret' = None
    /\ iteration' = 0
    /\ user_input' = <<>>
    /\ current_plan' = None
    /\ current_result' = None
    /\ fact_check' = None
    /\ evaluations' = NewList(evaluations)
    /\ raw_results' = NewList(raw_results)
    /\ accepted_findings' = NewList(accepted_findings)
    /\ accepted_evidence' = NewList(accepted_evidence)
    /\ fact_check_history' = NewList(fact_check_history)
    /\ verdicts' = <<>>
    /\ UNCHANGED max_iterations

NextRuns == Next \/ RunAgain

SpecRuns == InitRuns /\ [][NextRuns]_vars

\* ================================================================ claims
\* ---- C1: when every call of the Invoker raises a malformed-output error,
\* _run_with_retry with max_retries = k has called it exactly k+1 times when
\* it raises, and what it raises is the error of the last call; attempt 0
\* (the only one when k = 0) sends the prompt unamended.  While the wrapper
\* is still running it has made at most k calls.
C1_RetryCap ==
    /\ (pc = "raised" /\ raised.kind = "ModelBehaviorError") =>
          /\ Len(sent) = max_retries + 1
          /\ raised = ModelBehaviorError(max_retries + 1)
          /\ sent[1] = prompt
          /\ (max_retries = 0 => sent = <<prompt>>)
    /\ (pc \in CallSites) => (Len(sent) = attempt /\ attempt <= max_retries)

C1_Witness ==
    /\ pc = "raised"
    /\ raised.kind = "ModelBehaviorError"
    /\ max_retries >= 2
    /\ Len(sent) = max_retries + 1

\* ---- C2: an error that is not a malformed-output error is raised
\* unchanged by the call that met it and no call follows it (on the first
\* call: exactly one call); the only errors the wrapper survives are
\* malformed-output errors.
C2_NonRetryPassthrough ==
    /\ (pc = "raised" /\ raised.kind # "ModelBehaviorError") =>
          /\ raised.kind \in OtherKinds
          /\ raised = OtherError(raised.kind, Len(sent))
    /\ (pc \in CallSites /\ last_error # None) =>
          last_error = ModelBehaviorError(Len(sent))

C2_Witness ==
    /\ pc = "raised"
    /\ raised.kind = "ValueError"
    /\ Len(sent) >= 2

C2_WitnessFirstCall ==
    /\ pc = "raised"
    /\ raised.kind = "ValueError"
    /\ Len(sent) = 1

\* ---- C3: with max_iterations = N and an evaluator that asks to continue
\* on every iteration, the run performs exactly N iterations and then
\* returns: it never starts iteration N+1, and the N-th evaluation ends it.
AlwaysContinue(evs) == \A k \in 1..Len(evs) : evs[k].should_refine

C3_ForcedStop ==
    /\ Len(raw_results) <= max_iterations
    /\ iteration <= max_iterations
    /\ (pc = "returned" /\ AlwaysContinue(evaluations)) =>
          /\ Len(raw_results) = max_iterations
          /\ Len(evaluations) = max_iterations
          /\ iteration = max_iterations
          /\ raised = None
    /\ (AlwaysContinue(evaluations) /\ Len(evaluations) = max_iterations) =>
          pc = "returned"

C3_Witness ==
    /\ pc = "returned"
    /\ max_iterations >= 2
    /\ AlwaysContinue(evaluations)
    /\ Len(raw_results) = max_iterations

\* ---- C4: the loop stops at the first evaluation that says stop: only the
\* last evaluation can be a stop, a stop ends the run at once, the number of
\* iterations run is min(first stop, max_iterations), and a run that has
\* returned issues no further call.
FirstStop(evs, mx) ==
    IF \E k \in 1..Len(evs) : ~evs[k].should_refine
    THEN Min(CHOOSE k \in 1..Len(evs) :
                 /\ ~evs[k].should_refine
                 /\ \A j \in 1..(k - 1) : evs[j].should_refine,
             mx)
    ELSE mx

C4_EarlyStop ==
    /\ \A k \in 1..(Len(evaluations) - 1) : evaluations[k].should_refine
    /\ (evaluations # <<>> /\ ~evaluations[Len(evaluations)].should_refine) =>
          pc = "returned"
    /\ pc = "returned" =>
          /\ Len(evaluations) = FirstStop(evaluations, max_iterations)
          /\ Len(raw_results) = Len(evaluations)
          /\ Len(verdicts) = Len(evaluations)
          /\ ~ENABLED Next

C4_Witness ==
    /\ pc = "returned"
    /\ Len(evaluations) < max_iterations
    /\ ~evaluations[Len(evaluations)].should_refine

\* ---- C5 (as stated): the final findings and evidence are verified items,
\* and none of them is an item that the verdict of any iteration marked as
\* removed.
RemovedContents(fc) == {Take(rf.content, KeyLen) : rf \in Range(fc.removed_findings)}
RemovedUrls(fc) == {re.original_url : re \in Range(fc.removed_evidences)}
Checked == {k \in 1..Len(verdicts) : verdicts[k] # None}

C5_AsStated ==
    pc = "returned" =>
        /\ \A f \in Range(ret.result.findings) :
              /\ \E k \in Checked :
                    Take(f.content, KeyLen) \in VerifiedContents(verdicts[k])
              /\ \A k \in Checked :
                    Take(f.content, KeyLen) \notin RemovedContents(verdicts[k])
        /\ \A e \in Range(ret.result.evidence) :
              /\ \E k \in Checked : e.url \in VerifiedUrls(verdicts[k])
              /\ \A k \in Checked : e.url \notin RemovedUrls(verdicts[k])

\* ---- C5 (amended): every final finding and evidence was listed as
\* verified (by its 80-character key, resp. its url) by the verdict of an
\* iteration whose researcher output contains it; an item accepted in one
\* iteration stays even if another verdict marks it as removed.
C5_FinalOnlyVerified ==
    pc = "returned" =>
        /\ \A f \in Range(ret.result.findings) :
              \E k \in Checked :
                 /\ f \in Range(raw_results[k].findings)
                 /\ Take(f.content, KeyLen) \in VerifiedContents(verdicts[k])
        /\ \A e \in Range(ret.result.evidence) :
              \E k \in Checked :
                 /\ e \in Range(raw_results[k].evidence)
                 /\ e.url \in VerifiedUrls(verdicts[k])

C5_Witness ==
    /\ pc = "returned"
    /\ ret.result.findings # <<>>
    /\ ret.result.evidence # <<>>
    /\ \E k \in Checked :
          \E f \in Range(ret.result.findings) :
             Take(f.content, KeyLen) \in RemovedContents(verdicts[k])

\* ---- C6: whatever enters a pool in a step is an unmodified element of the
\* researcher's output of the current iteration (as archived in the raw
\* record), also when the verdict echoes other URLs or altered content.
C6_Step ==
    /\ \A i \in (Len(accepted_findings) + 1)..Len(accepted_findings') :
          /\ accepted_findings'[i] \in Range(current_result.findings)
          /\ accepted_findings'[i] \in Range(raw_results[iteration].findings)
    /\ \A i \in (Len(accepted_evidence) + 1)..Len(accepted_evidence') :
          /\ accepted_evidence'[i] \in Range(current_result.evidence)
          /\ accepted_evidence'[i] \in Range(raw_results[iteration].evidence)
          /\ \E e \in Range(raw_results[iteration].evidence) :
                e.url = accepted_evidence'[i].url

C6_PoolHoldsResearcherItems == [][C6_Step]_vars

C6_Witness ==
    /\ pc = "evaluate"
    /\ fact_check # None
    /\ accepted_evidence # <<>>
    /\ accepted_findings # <<>>
    /\ \E ve \in Range(fact_check.verified_evidences) :
          /\ ve.url \notin {e.url : e \in Range(current_result.evidence)}
          /\ ve.original_url = accepted_evidence[Len(accepted_evidence)].url
    /\ \E vf \in Range(fact_check.verified_findings) :
          /\ vf.content # accepted_findings[Len(accepted_findings)].content
          /\ Take(vf.content, KeyLen) =
                Take(accepted_findings[Len(accepted_findings)].content, KeyLen)

\* ---- C7: on return the final result's findings and evidence are the
\* pools, in their order, whatever the researcher returned last; with empty
\* pools they are empty and the run still returns.
C7_FinalizationOverwrite ==
    pc = "returned" =>
        /\ ret.result.findings = accepted_findings
        /\ ret.result.evidence = accepted_evidence
        /\ current_result = ret.result
        /\ raised = None

C7_Witness ==
    /\ pc = "returned"
    /\ accepted_findings = <<>>
    /\ accepted_evidence = <<>>
    /\ raw_results[Len(raw_results)].findings # <<>>
    /\ raw_results[Len(raw_results)].evidence # <<>>
    /\ ret.result.findings = <<>>

C7_WitnessPool ==
    /\ pc = "returned"
    /\ Len(accepted_findings) = 2
    /\ Len(accepted_evidence) = 1
    /\ Len(raw_results[Len(raw_results)].findings) # 2

\* ---- C8: the fact-check call is issued exactly when the researcher's
\* output has a finding or an evidence; a skipped iteration has no verdict
\* and its history entry is all zero with no removal reasons.
Empty(r) == r.findings = <<>> /\ r.evidence = <<>>

C8_SkipOnEmpty ==
    /\ pc = "factcheck" => ~Empty(current_result)
    /\ pc = "evaluate" => (fact_check = None <=> Empty(current_result))
    /\ \A k \in 1..Len(fact_check_history) :
          /\ verdicts[k] = None <=> Empty(raw_results[k])
          /\ Empty(raw_results[k]) =>
                /\ fact_check_history[k].verified = 0
                /\ fact_check_history[k].removed = 0
                /\ fact_check_history[k].reliability[1] = 0
                /\ fact_check_history[k].removed_reasons = <<>>

C8_Witness ==
    /\ pc = "evaluate"
    /\ fact_check = None
    /\ Empty(current_result)
    /\ fact_check_history[iteration].verified = 0

C8_WitnessCalled ==
    /\ pc = "factcheck"
    /\ current_result.findings = <<>>
    /\ current_result.evidence # <<>>

\* ---- C9: every fact-check history entry with verified = M and
\* removed = N has reliability = M / max(M+N, 1).
C9_ReliabilityRatio ==
    \A k \in 1..Len(fact_check_history) :
        LET h == fact_check_history[k] IN
        h.reliability[1] * Max(h.verified + h.removed, 1) =
            h.verified * h.reliability[2]

\* ---- C10: inserting a finding into accepted_findings goes by the first 80
\* characters of its content: with a key already in the pool the pool is
\* unchanged, with a new key the pool is the old pool followed by the finding.
SameKey(f, g) ==
    /\ \A i \in 1..KeyLen :
          (i <= Len(f.content) /\ i <= Len(g.content)) =>
              f.content[i] = g.content[i]
    /\ Min(Len(f.content), KeyLen) = Min(Len(g.content), KeyLen)

C10_DedupFindings ==
    \A f \in Findings :
        LET after == InsertFinding(accepted_findings, f) IN
        IF \E g \in Range(accepted_findings) : SameKey(f, g)
        THEN after = accepted_findings
        ELSE /\ Len(after) = Len(accepted_findings) + 1
             /\ after[Len(after)] = f
             /\ SubSeq(after, 1, Len(accepted_findings)) = accepted_findings

C10_Witness ==
    /\ accepted_findings = <<FA, FB>>
    /\ raw_results[Len(raw_results)].findings = <<FA2, FB>>
    /\ InsertFinding(accepted_findings, FA2) = accepted_findings

\* ---------------------------------------------------------------------------
\* C11: evidence is accumulated by exact url.  Offering the pool an item whose
\* url it already holds leaves the pool as it is; an item with a new non-empty
\* url is appended and the pool grows by exactly one; an item with an empty
\* url is never added.  Hence the pool never holds an empty url or one url
\* twice, whatever verdicts were returned.
PoolUrls == {g.url : g \in Range(accepted_evidence)}

C11_DedupEvidence ==
    /\ \A e \in Evidences :
          LET after == InsertEvidence(accepted_evidence, e)
          IN  IF e.url = "" \/ e.url \in PoolUrls
              THEN after = accepted_evidence
              ELSE /\ Len(after) = Len(accepted_evidence) + 1
                   /\ SubSeq(after, 1, Len(accepted_evidence)) = accepted_evidence
                   /\ after[Len(after)] = e
    /\ \A i \in 1..Len(accepted_evidence) :
          /\ accepted_evidence[i].url # ""
          /\ \A j \in 1..Len(accepted_evidence) :
                accepted_evidence[i].url = accepted_evidence[j].url => i = j

\* two iterations offered u2 (next to an empty url) and then u1 twice: the
\* pool holds one item per url
C11_Witness ==
    /\ accepted_evidence = <<EU2, EU1>>
    /\ \E k \in 1..Len(raw_results) : Range(raw_results[k].evidence) = {EE, EU2}
    /\ \E k \in 1..Len(raw_results) : raw_results[k].evidence = <<EU1, EU1b>>
    /\ \A k \in 1..Len(verdicts) : verdicts[k] # None

\* ---------------------------------------------------------------------------
\* C12: the pools only grow, and only by appending.  In every step of a run
\* the pool of accepted findings (resp. evidence) before the step is a prefix
\* of the pool after it, so lengths never decrease and an accepted item is
\* never retracted, also when a later verdict marks the same item as removed.
\* (A step that raises ends the run and its pools with it.)
IsPrefix(s, t) == Len(s) <= Len(t) /\ SubSeq(t, 1, Len(s)) = s

C12_Step ==
    pc' # "raised" =>
        /\ IsPrefix(accepted_findings, accepted_findings')
        /\ IsPrefix(accepted_evidence, accepted_evidence')

C12_PoolsOnlyGrow == [][C12_Step]_vars

\* the second verdict removes url u2, pooled in the first iteration, and the
\* pool has grown past it
C12_Witness ==
    /\ pc = "evaluate"
    /\ iteration = 2
    /\ fact_check # None
    /\ verdicts[1] # None
    /\ LET first == AccumulateEvidence(<<>>,
                        IterationAcceptedEvidence(raw_results[1], verdicts[1]))
       IN  /\ first # <<>>
           /\ IsPrefix(first, accepted_evidence)
           /\ Len(accepted_evidence) > Len(first)
           /\ \E e \in Range(first) : e.url \in RemovedUrls(fact_check)

\* ---------------------------------------------------------------------------
\* C13: when a wrapped call of the run (planner, researcher, fact-checker or
\* evaluator) fails for good - an error that is not malformed output, or
\* malformed output on the last permitted attempt - the run raises the error
\* of that very call, no further call is made and no tuple is returned.
FailedSite == Head(sent[Len(sent)])

C13_FailureEndsRun ==
    pc = "raised" =>
        /\ ret = None
        /\ ~ENABLED Next
        /\ sent # <<>>
        /\ raised.call = Len(sent)
        /\ FailedSite \in {"Planner", "Researcher", "FactChecker", "Evaluator"}
        /\ raised.kind = "ModelBehaviorError" => Len(sent) = max_retries + 1
        /\ raised.kind # "ModelBehaviorError" => raised.kind \in OtherKinds

\* the evaluator of the second iteration fails on its last permitted attempt
C13_Witness ==
    /\ pc = "raised"
    /\ FailedSite = "Evaluator"
    /\ sent[1][2] = "2"
    /\ raised = ModelBehaviorError(MAX_PARSE_RETRIES + 1)

C13_WitnessPlanner ==
    pc = "raised" /\ FailedSite = "Planner" /\ raised.kind \in OtherKinds

C13_WitnessResearcher ==
    pc = "raised" /\ FailedSite = "Researcher" /\ raised.kind \in OtherKinds

C13_WitnessFactChecker ==
    pc = "raised" /\ FailedSite = "FactChecker" /\ raised.kind = "ModelBehaviorError"

\* ---------------------------------------------------------------------------
\* C14: a run that returns after n iterations returns a fact-check history,
\* an evaluation history and a raw iteration log of exactly n entries each
\* (iterations whose fact-check was skipped included), and the k-th entry of
\* the fact-check history and of the raw log carries iteration number k.
C14_HistoriesAligned ==
    pc = "returned" =>
        /\ iteration \in 1..max_iterations
        /\ Len(ret.fact_check_history) = iteration
        /\ Len(ret.evaluations) = iteration
        /\ Len(ret.raw_results) = iteration
        /\ \A k \in 1..iteration :
              /\ ret.fact_check_history[k].iteration = k
              /\ ret.raw_results[k].iteration = k

\* two iterations, the fact-check of the second one skipped
C14_Witness ==
    /\ pc = "returned"
    /\ iteration = 2
    /\ verdicts[1] # None
    /\ verdicts[2] = None
    /\ ret.fact_check_history[2] = SkippedEntry(2)

\* ---------------------------------------------------------------------------
\* C15: every evaluation of the evaluation history carries the loop counter
\* of the iteration that produced it (the k-th one carries k), whatever
\* iteration number the evaluator itself returned.
C15_EvaluationNumbered ==
    /\ \A k \in 1..Len(evaluations) : evaluations[k].iteration_number = k
    /\ pc = "returned" =>
          /\ ret.evaluations = evaluations
          /\ ret.evaluations[Len(ret.evaluations)].iteration_number = iteration

\* the evaluator only ever answers with iteration_number 1; the run has
\* returned two evaluations
C15_Witness ==
    /\ pc = "returned"
    /\ Len(ret.evaluations) = 2
    /\ ret.evaluations[2].iteration_number = 2
    /\ \A out \in EvaluationOutputs : out.iteration_number = 1

\* ---------------------------------------------------------------------------
\* C16: attempt 0 sends the prompt verbatim; every retry sends the original
\* prompt followed by exactly one amendment.  Amendments do not pile up: the
\* prompt of retry n holds one retry marker, not n.
RECURSIVE Count(_, _)
Count(s, c) ==
    IF s = <<>> THEN 0
    ELSE (IF Head(s) = c THEN 1 ELSE 0) + Count(Tail(s), c)

Markers(p) == Count(p, "RETRY")

C16_PromptPerAttempt ==
    \A i \in 1..Len(sent) :
        /\ SubSeq(sent[i], 1, Len(prompt)) = prompt
        /\ i = 1 => sent[i] = prompt
        /\ i > 1 => /\ Markers(sent[i]) = 1
                    /\ Len(sent[i]) = Len(sent[2])
                    /\ sent[i][Len(prompt) + 1] = "RETRY"

\* three attempts were made and a fourth is due
C16_Witness ==
    /\ pc = "standalone"
    /\ attempt = 3
    /\ Len(sent) = 3
    /\ Markers(sent[1]) = 0
    /\ Markers(sent[3]) = 1

AttemptPos == Len(prompt) + 2

C18_Step ==
    /\ pc # "returned"
    /\ pc' = "returned" =>
          /\ ret' \in Outputs
          /\ raised' = None
          /\ Len(sent') = attempt + 1
          /\ sent'[attempt + 1] = CurrentPrompt(prompt, attempt, max_retries)
          /\ attempt > 0 => last_error = ModelBehaviorError(attempt)

C18_CallsUntilSuccess == [][C18_Step]_vars

\* success on the third attempt, after two malformed answers
C18_Witness ==
    /\ pc = "returned"
    /\ Len(sent) = 3
    /\ ret \in Outputs
    /\ raised = None

\* ---------------------------------------------------------------------------
\* C20: the cumulative fact-check totals of the agentic report are the sum of
\* `verified` and the sum of `removed` over the fact_check_history passed to
\* the formatter; both are 0 when it is None or empty; the history table has
\* one row per entry, in the order of the history.
RECURSIVE VerifiedUpTo(_, _)
VerifiedUpTo(s, n) == IF n = 0 THEN 0 ELSE VerifiedUpTo(s, n - 1) + s[n].verified

RECURSIVE RemovedUpTo(_, _)
RemovedUpTo(s, n) == IF n = 0 THEN 0 ELSE RemovedUpTo(s, n - 1) + s[n].removed

C20_ReportTotals ==
    pc = "formatted" =>
        LET h == args.fact_check_history
        IN  IF h = None \/ h = Some(<<>>)
            THEN /\ ret.fc_total_verified = 0
                 /\ ret.fc_total_removed = 0
                 /\ ret.rows = <<>>
            ELSE /\ ret.fc_total_verified = VerifiedUpTo(h.some, Len(h.some))
                 /\ ret.fc_total_removed = RemovedUpTo(h.some, Len(h.some))
                 /\ Len(ret.rows) = Len(h.some)
                 /\ \A k \in 1..Len(h.some) :
                       /\ ret.rows[k][1] = h.some[k].iteration
                       /\ ret.rows[k][2] = h.some[k].verified
                       /\ ret.rows[k][3] = h.some[k].removed

\* a history of two entries with different counts
C20_Witness ==
    /\ pc = "formatted"
    /\ args.fact_check_history # None
    /\ Len(args.fact_check_history.some) = 2
    /\ args.fact_check_history.some[1].verified = 2
    /\ args.fact_check_history.some[2].verified = 1
    /\ ret.fc_total_verified = 3
    /\ ret.fc_total_removed = 1
    /\ ret.rows[1][2] = 2

C20_WitnessNone ==
    pc = "formatted" /\ args.fact_check_history = None /\ ret.rows = <<>>

C20_WitnessEmpty ==
    pc = "formatted" /\ args.fact_check_history = Some(<<>>) /\ ret.rows = <<>>

\* ---------------------------------------------------------------------------
\* C19: decoding tells incomplete output from malformed output.  For every
\* schema, an object lacking any of its fields (the empty object and list
\* elements that lack fields included) is accepted on the first attempt, the
\* missing fields take the declared defaults, and no retry is made.  A text
\* that ends before its brackets are closed, or a list of objects holding a
\* string, a number or null, is rejected: the call is retried and finally
\* raises the malformed-output error.
Defaulted(name, given, built) ==
    /\ built.t = "object"
    /\ DOMAIN built.v = FieldNames(name)
    /\ \A f \in FieldNames(name) \ DOMAIN given.v :
          built.v[f] = Schema(name)[f].default

C19_IncompleteVsMalformed ==
    LET name == args.output_type
        payload == args.payload
    IN  /\ payload.damage = "none" =>
              /\ attempt = 0
              /\ pc # "raised"
              /\ pc = "returned" =>
                    /\ Len(sent) = 1
                    /\ Defaulted(name, payload.doc, ret)
                    /\ \A g \in ModelListFields(name) \cap DOMAIN payload.doc.v :
                          /\ Len(ret.v[g].v) = Len(payload.doc.v[g].v)
                          /\ \A i \in 1..Len(ret.v[g].v) :
                                Defaulted(Schema(name)[g].of,
                                          payload.doc.v[g].v[i], ret.v[g].v[i])
        /\ payload.damage \in {"truncated", "element"} =>
              /\ pc # "returned"
              /\ ret = None
              /\ pc = "decode" => Len(sent) = attempt
              /\ pc = "raised" =>
                    /\ raised = ModelBehaviorError(max_retries + 1)
                    /\ Len(sent) = max_retries + 1

\* the empty object was decoded into a research result of defaults only
C19_Witness ==
    /\ pc = "returned"
    /\ args.output_type = "ResearchResultOutput"
    /\ DOMAIN args.payload.doc.v = {}
    /\ ret.v["iteration_number"] = JNum(1)
    /\ ret.v["plan_used"] = JNull
    /\ ret.v["findings"] = JList(<<>>)

\* a finding without source was decoded with the default source
C19_WitnessElement ==
    /\ pc = "returned"
    /\ args.output_type = "ResearchResultOutput"
    /\ DOMAIN args.payload.doc.v = {"findings"}
    /\ Len(ret.v["findings"].v) = 2
    /\ DOMAIN args.payload.doc.v["findings"].v[2].v = {"content"}
    /\ ret.v["findings"].v[2].v["source"] = JStr("")

\* a findings list ending in the string "{" was rejected on every attempt
C19_WitnessMalformed ==
    /\ pc = "raised"
    /\ args.payload.damage = "element"
    /\ DOMAIN args.payload.doc.v = {"findings"}
    /\ Len(args.payload.doc.v["findings"].v) = 2
    /\ args.payload.doc.v["findings"].v[2].t = "string"

C19_WitnessTruncated ==
    pc = "raised" /\ args.payload.damage = "truncated"

\* ---------------------------------------------------------------------------
\* C21: in an iteration with a verdict, a finding of the researcher is
\* selected iff the first 80 characters of its content are the first 80
\* characters of a verified finding, and an evidence item iff its url is the
\* non-empty url or the non-empty original_url of a verified evidence.  The
\* selected items, and nothing else of the iteration, are offered to the
\* pools: what a pool gains in the step are selected items, in the
\* researcher's order, and every selected item is pooled unless its key is
\* held already or its url is empty.
SelectedFinding(f, fc) ==
    \E i \in 1..Len(fc.verified_findings) :
        Take(f.content, KeyLen) = Take(fc.verified_findings[i].content, KeyLen)

SelectedEvidence(e, fc) ==
    \E i \in 1..Len(fc.verified_evidences) :
        \/ e.url # "" /\ e.url = fc.verified_evidences[i].url
        \/ e.url # "" /\ e.url = fc.verified_evidences[i].original_url

Gained(old, new) == SubSeq(new, Len(old) + 1, Len(new))

C21_Step ==
    (pc = "factcheck" /\ pc' = "evaluate") =>
        /\ \A f \in Range(current_result.findings) :
              /\ SelectedFinding(f, fact_check') =>
                    \E g \in Range(accepted_findings') :
                        Take(g.content, KeyLen) = Take(f.content, KeyLen)
              /\ ~SelectedFinding(f, fact_check') =>
                    f \notin Range(Gained(accepted_findings, accepted_findings'))
        /\ \A e \in Range(current_result.evidence) :
              /\ SelectedEvidence(e, fact_check') =>
                    \E g \in Range(accepted_evidence') : g.url = e.url
              /\ ~SelectedEvidence(e, fact_check') =>
                    e \notin Range(Gained(accepted_evidence, accepted_evidence'))
        /\ IterationAcceptedFindings(current_result, fact_check') =
              SelectSeq(current_result.findings,
                        LAMBDA f : SelectedFinding(f, fact_check'))
        /\ IterationAcceptedEvidence(current_result, fact_check') =
              SelectSeq(current_result.evidence,
                        LAMBDA e : SelectedEvidence(e, fact_check'))

C21_SelectionIff == [][C21_Step]_vars

\* the verdict names url u1 only as original_url and echoes an altered text:
\* of the researcher's two evidence items with url u1 and two findings with
\* the same key, the first of each was pooled
C21_Witness ==
    /\ pc = "evaluate"
    /\ iteration = 1
    /\ fact_check # None
    /\ current_result.evidence = <<EU1, EU1b>>
    /\ current_result.findings = <<FA, FA2>>
    /\ \A ve \in Range(fact_check.verified_evidences) : ve.url # "u1"
    /\ accepted_evidence = <<EU1>>
    /\ accepted_findings = <<FA>>

\* ---------------------------------------------------------------------------
\* C22: the plan in use changes only where the loop continues.  After an
\* evaluation that does not stop the loop the plan is the evaluation's revised
\* plan, whole, if it has one and the plan as it was otherwise; the calls of an
\* iteration leave the plan alone; a revised plan of the stopping evaluation is
\* ignored, and the plan returned is the plan the last researcher call used.
LastEvaluation(evs) == evs[Len(evs)]

C22_Step ==
    /\ (pc = "evaluate" /\ pc' = "research") =>
          /\ current_plan' =
                IF LastEvaluation(evaluations').refined_plan # None
                THEN LastEvaluation(evaluations').refined_plan
                ELSE current_plan
          /\ current_plan'.objective \in Range(prompt')
    /\ (pc = "evaluate" /\ pc' = "returned") =>
          /\ ret'.plan = current_plan
          /\ current_plan' = current_plan
    /\ (pc \in {"research", "factcheck"} /\ pc' # "raised") =>
          current_plan' = current_plan

C22_PlanChangesAtContinue == [][C22_Step]_vars

\* the first evaluation revised the plan and the loop went on; the second,
\* stopping one carried a revised plan too, which the run did not return
C22_Witness ==
    /\ pc = "returned"
    /\ Len(ret.evaluations) = 2
    /\ ret.evaluations[1].refined_plan = None
    /\ ret.evaluations[2].refined_plan = PlanB
    /\ ret.plan # PlanB

C22_WitnessRevised ==
    /\ pc = "evaluate"
    /\ iteration = 2
    /\ evaluations[1].refined_plan = PlanB
    /\ current_plan = PlanB

\* ---------------------------------------------------------------------------
\* C25: the calls of a run follow PLANNING, RESEARCHING(i), FACT_CHECKING(i)
\* or its skip, EVALUATING(i), then RESEARCHING(i+1) or STOP.  One call is
\* made at a time, to the agent of the phase; the evaluator of iteration i
\* is called only once the fact-check of iteration i has returned or been
\* skipped (its history entry exists), the researcher of iteration i+1 only
\* once the evaluation of iteration i has returned.
PhaseOrder ==
    {<<"plan", "input">>, <<"input", "revise">>, <<"input", "research">>,
     <<"revise", "research">>, <<"research", "factcheck">>,
     <<"research", "evaluate">>, <<"factcheck", "evaluate">>,
     <<"evaluate", "research">>, <<"evaluate", "returned">>}

AgentOf(site) ==
    CASE site \in {"plan", "revise"} -> "Planner"
      [] site = "research" -> "Researcher"
      [] site = "factcheck" -> "FactChecker"
      [] site = "evaluate" -> "Evaluator"
      [] OTHER -> "none"

C25_Step ==
    /\ pc' # pc => (<<pc, pc'>> \in PhaseOrder \/ pc' = "raised")
    /\ Len(sent') <= Len(sent) + 1
    /\ pc' \in {"plan", "revise", "research", "factcheck", "evaluate"} =>
          /\ Head(prompt') = AgentOf(pc')
          /\ \A i \in 1..Len(sent') : Head(sent'[i]) = AgentOf(pc')
    /\ (pc' = "research" /\ pc # "research") =>
          /\ iteration' = IF pc = "evaluate" THEN iteration + 1 ELSE 1
          /\ Len(evaluations') = iteration' - 1
          /\ Len(raw_results') = iteration' - 1
          /\ pc = "evaluate" =>
                LastEvaluation(evaluations').iteration_number = iteration
    /\ (pc' = "factcheck" /\ pc # "factcheck") =>
          /\ iteration' = iteration
          /\ Len(raw_results') = iteration
          /\ Len(fact_check_history') = iteration - 1
    /\ (pc' = "evaluate" /\ pc # "evaluate") =>
          /\ iteration' = iteration
          /\ Len(raw_results') = iteration
          /\ Len(fact_check_history') = iteration
          /\ fact_check_history'[iteration].iteration = iteration
          /\ Len(evaluations') = iteration - 1
    /\ (pc = "evaluate" /\ pc' = "returned") =>
          Len(evaluations') = iteration

C25_PhaseOrder == [][C25_Step]_vars

\* the evaluator of iteration 2 is about to be called for the second time
\* after a skipped fact-check, iteration 1 having gone through a verdict
C25_Witness ==
    /\ pc = "evaluate"
    /\ iteration = 2
    /\ Len(sent) = 1
    /\ verdicts[1] # None
    /\ verdicts[2] = None
    /\ Len(evaluations) = 1

\* ---------------------------------------------------------------------------
\* C26: the raw record of iteration i holds exactly the findings and the
\* evidence the researcher returned in iteration i, in the same order and
\* with the same urls, and no later step changes it: not the verdict, not
\* the accumulation, not the overwrite after the loop.  The records returned
\* are the records as written.
RecordsResult(rec, it, result) ==
    /\ rec.iteration = it
    /\ Len(rec.findings) = Len(result.findings)
    /\ \A i \in 1..Len(rec.findings) :
          /\ rec.findings[i].content = result.findings[i].content
          /\ rec.findings[i].source = result.findings[i].source
    /\ Len(rec.evidence) = Len(result.evidence)
    /\ \A i \in 1..Len(rec.evidence) :
          /\ rec.evidence[i].url = result.evidence[i].url
          /\ rec.evidence[i].title = result.evidence[i].title
          /\ rec.evidence[i].summary = result.evidence[i].summary

C26_Step ==
    /\ (pc = "research" /\ pc' \in {"factcheck", "evaluate"}) =>
          /\ Len(raw_results') = Len(raw_results) + 1
          /\ SubSeq(raw_results', 1, Len(raw_results)) = raw_results
          /\ RecordsResult(raw_results'[Len(raw_results')], iteration,
                           current_result')
    /\ (pc \in {"factcheck", "evaluate"} /\ pc' # "raised") =>
          raw_results' = raw_results
    /\ pc' = "returned" => ret'.raw_results = raw_results

C26_RawRecordFrozen == [][C26_Step]_vars

\* returned after a verdict that removed items: the result returned holds
\* the pool, the raw record still the researcher's four items, one of them
\* an evidence without url
C26_Witness ==
    /\ pc = "returned"
    /\ Len(ret.raw_results) = 2
    /\ ret.raw_results[1].evidence =
          <<[title |-> EE.title, url |-> "", summary |-> EE.summary],
            [title |-> EU2.title, url |-> EU2.url, summary |-> EU2.summary]>>
    /\ Len(ret.raw_results[1].findings) = 2
    /\ verdicts[1] # None
    /\ verdicts[1].total_removed > 0
    /\ ret.result.evidence # <<EE, EU2>>
    /\ ret.result.findings # <<FA2, FB>>

\* ---------------------------------------------------------------------------
\* C28: an iteration whose fact-check is skipped leaves both pools exactly as
\* they were, and so does an iteration whose verdict verifies nothing that
\* matches an item of the researcher: a pool whose kind of item has no match
\* in the verdict is unchanged by the verdict.
NoFindingMatches(result, fc) ==
    \A f \in Range(result.findings) : ~SelectedFinding(f, fc)

NoEvidenceMatches(result, fc) ==
    \A e \in Range(result.evidence) : ~SelectedEvidence(e, fc)

C28_Step ==
    /\ (pc = "research" /\ pc' \in {"evaluate", "factcheck"}) =>
          /\ accepted_findings' = accepted_findings
          /\ accepted_evidence' = accepted_evidence
    /\ (pc = "factcheck" /\ pc' = "evaluate") =>
          /\ NoFindingMatches(current_result, fact_check') =>
                accepted_findings' = accepted_findings
          /\ NoEvidenceMatches(current_result, fact_check') =>
                accepted_evidence' = accepted_evidence

C28_NoMatchNoChange == [][C28_Step]_vars

\* iteration 2 ended with a verdict that verified nothing of the researcher's
\* items although it removed two; the pools are those of iteration 1
C28_Witness ==
    /\ pc = "evaluate"
    /\ iteration = 2
    /\ fact_check # None
    /\ current_result.findings # <<>>
    /\ current_result.evidence # <<>>
    /\ NoFindingMatches(current_result, fact_check)
    /\ NoEvidenceMatches(current_result, fact_check)
    /\ fact_check.total_removed = 2
    /\ accepted_findings = <<FA2, FB>>
    /\ accepted_evidence = <<EU2>>

\* iteration 2 skipped the fact-check; the pools are those of iteration 1
C28_WitnessSkipped ==
    /\ pc = "evaluate"
    /\ iteration = 2
    /\ verdicts[2] = None
    /\ accepted_findings = <<FA2, FB>>
    /\ accepted_evidence = <<EU2>>

\* the verdict verified an evidence, but none the researcher had returned
C28_WitnessForeign ==
    /\ pc = "evaluate"
    /\ iteration = 2
    /\ fact_check # None
    /\ fact_check.verified_evidences # <<>>
    /\ NoEvidenceMatches(current_result, fact_check)
    /\ accepted_evidence = <<EU1>>

\* ---------------------------------------------------------------------------
\* C30: the planning phase makes one plan-creation call and then, exactly
\* when the user's instruction is non-empty after trimming, one plan-revision
\* call; both precede the first researcher call, and iteration 1 uses the
\* result of the last planner call as a whole.  (A call here is a wrapped
\* call; its retries are attempts of the same call.)
Trimmed(s) ==
    s = <<>> \/ (Head(s) \notin Whitespace /\ s[Len(s)] \notin Whitespace)

C30_Step ==
    /\ pc' = "plan" => pc = "plan"
    /\ pc' = "input" => pc = "plan"
    /\ pc' = "revise" => pc \in {"input", "revise"}
    /\ pc = "plan" =>
          /\ prompt = PlannerPrompt
          /\ pc' \in {"plan", "input", "raised"}
          /\ pc' = "input" => current_plan' \in PlannerOutputs
    /\ pc = "input" =>
          /\ Trimmed(user_input')
          /\ pc' = "revise" <=> user_input' # <<>>
          /\ pc' = "research" <=> user_input' = <<>>
          /\ current_plan' = current_plan
          /\ pc' = "revise" =>
                /\ prompt' = RefinementPrompt(current_plan, user_input')
                /\ prompt' # PlannerPrompt
    /\ (pc = "revise" /\ pc' = "research") =>
          current_plan' \in RevisedPlannerOutputs
    /\ pc' \in {"plan", "input", "revise"} =>
          /\ raw_results' = <<>>
          /\ evaluations' = <<>>
    /\ (pc' = "research" /\ pc \in {"input", "revise"}) =>
          /\ iteration' = 1
          /\ current_plan'.objective \in Range(prompt')

C30_PlanningPhase == [][C30_Step]_vars

\* the user typed an instruction with blanks around it: the first researcher
\* call uses the revised plan, none of whose fields is the initial plan's
C30_Witness ==
    /\ pc = "research"
    /\ iteration = 1
    /\ sent = <<>>
    /\ user_input = <<"x">>
    /\ current_plan = PlanR
    /\ current_plan.objective # PlanA.objective
    /\ current_plan.research_areas # PlanA.research_areas

\* the user typed blanks only: no revision call, the initial plan is used
C30_WitnessBlank ==
    /\ pc = "research"
    /\ iteration = 1
    /\ user_input = <<>>
    /\ current_plan = PlanA

\* ---------------------------------------------------------------------------
\* C29: every evaluation in the history has its six sub-scores in 0..10, its
\* overall score in 0..60, and the overall score equal to the sum of the six.
SubScores(ev) ==
    <<ev.objective_achievement_score, ev.coverage_score,
      ev.depth_insight_score, ev.actionability_score,
      ev.credibility_score, ev.quantitative_score>>

C29_OverallIsSum ==
    \A k \in 1..Len(evaluations) :
        /\ \A j \in 1..6 : SubScores(evaluations[k])[j] \in 0..10
        /\ evaluations[k].overall_quality_score \in 0..60
        /\ evaluations[k].overall_quality_score = Sum(SubScores(evaluations[k]))

\* ---------------------------------------------------------------------------
\* C23: whenever an evaluation exists, the prompt of the researcher call
\* carries the coverage gaps of the most recent evaluation and its refinement
\* strategy, the strategy also when that evaluation listed no gap.
C23_StrategyPassedOn ==
    (pc = "research" /\ evaluations # <<>>) =>
        LET last_eval == LastEvaluation(evaluations) IN
        /\ iteration > 1
        /\ \A g \in Range(Take(last_eval.coverage_gaps, ContextGaps)) :
              g \in Range(prompt)
        /\ last_eval.refinement_strategy # None =>
              last_eval.refinement_strategy.some \in Range(prompt)

\* ---------------------------------------------------------------------------
\* C24: the fact-check entry shown to the evaluator of iteration i is the
\* entry of iteration i, a skipped entry with its zeros included; the entry
\* shown to the researcher of iteration i > 1 is the entry of iteration i-1;
\* the researcher of iteration 1 is shown none.
After(s, marker) ==
    LET i == CHOOSE k \in 1..Len(s) :
                 s[k] = marker /\ \A j \in 1..(k - 1) : s[j] # marker
    IN  SubSeq(s, i + 1, Len(s))

Counts(entry) ==
    <<ToString(entry.verified), ToString(entry.removed),
      ToString(Percent1(entry.reliability))>>

C24_EntryShown ==
    /\ pc = "research" =>
          IF iteration = 1
          THEN "LATEST_FACT_CHECK" \notin Range(prompt)
          ELSE /\ "LATEST_FACT_CHECK" \in Range(prompt)
               /\ fact_check_history[iteration - 1].iteration = iteration - 1
               /\ Take(After(prompt, "LATEST_FACT_CHECK"), 3) =
                     Counts(fact_check_history[iteration - 1])
    /\ pc = "evaluate" =>
          /\ "FACT_CHECK_RESULT" \in Range(prompt)
          /\ fact_check_history[iteration].iteration = iteration
          /\ Take(After(prompt, "FACT_CHECK_RESULT"), 4) =
                Counts(fact_check_history[iteration])
                    \o <<fact_check_history[iteration].summary>>

\* the evaluator of iteration 2 is shown the zeros of the skipped fact-check
\* although the entry of iteration 1 counts four verified items
C24_Witness ==
    /\ pc = "evaluate"
    /\ iteration = 2
    /\ verdicts[2] = None
    /\ fact_check_history[1].verified = 4
    /\ Take(After(prompt, "FACT_CHECK_RESULT"), 3) = <<"0", "0", "0">>

\* the researcher of iteration 2 is shown the counts of iteration 1
C24_WitnessResearcher ==
    /\ pc = "research"
    /\ iteration = 2
    /\ fact_check_history[1].verified = 2
    /\ Take(After(prompt, "LATEST_FACT_CHECK"), 3) = <<"2", "2", "500">>

\* ---------------------------------------------------------------------------
\* C27: the evaluator of iteration i is given the result the researcher
\* returned in iteration i, never the pools: the findings and the evidence
\* its prompt lists are those of the raw record of iteration i, item by item,
\* and the verdict and the accumulation of the iteration leave the result
\* alone.
ListedResult(p, raw) ==
    LET sec == After(p, "RESULT_FINDINGS")
        n == Len(raw.findings)
        m == Len(raw.evidence)
        nn == Min(n, EvaluatedFindings)
        mm == Min(m, EvaluatedEvidence)
    IN  /\ sec[1] = ToString(n)
        /\ \A i \in 1..nn :
              sec[1 + i] = Text(<<raw.findings[i].content,
                                  raw.findings[i].source>>)
        /\ sec[nn + 2] = "RESULT_EVIDENCE"
        /\ \A i \in 1..mm :
              sec[nn + 2 + i] = Text(<<raw.evidence[i].title,
                                       raw.evidence[i].url,
                                       raw.evidence[i].summary>>)
        /\ sec[nn + mm + 3] = ToString(m)
        /\ sec[nn + mm + 4] = "RESULT_SUMMARY"
        /\ sec[nn + mm + 5] = raw.summary

C27_EvaluatorGivenRaw ==
    pc = "evaluate" =>
        /\ "RESULT_FINDINGS" \in Range(prompt)
        /\ ListedResult(prompt, raw_results[iteration])
        /\ RecordsResult(raw_results[iteration], iteration, current_result)

\* iteration 2: the verdict rejected everything, the pools hold FA2 and FB
\* of iteration 1, and the evaluator is shown FA and FA2 of iteration 2
C27_Witness ==
    /\ pc = "evaluate"
    /\ iteration = 2
    /\ fact_check # None
    /\ current_result.findings = <<FA, FA2>>
    /\ accepted_findings = <<FA2, FB>>
    /\ accepted_evidence = <<EU2>>
    /\ Text(<<FA.content, FA.source>>) \in Range(prompt)
    /\ Text(<<FB.content, FB.source>>) \notin Range(prompt)
    /\ Text(<<EU2.title, EU2.url, EU2.summary>>) \notin
          Range(After(prompt, "RESULT_FINDINGS"))

\* ---------------------------------------------------------------------------
\* C35: with max_iterations >= 1, whenever the run returns, the result
\* returned is a research result, never None, and the evaluation history is
\* not empty: the loop body ran at least once before the finalization, so
\* that a raw record and a fact-check entry exist as well.
C35_ReturnsFullyFormed ==
    (pc = "returned" /\ max_iterations >= 1) =>
        /\ ret # None
        /\ ret.result # None
        /\ ret.plan # None
        /\ Len(ret.evaluations) >= 1
        /\ Len(ret.raw_results) >= 1
        /\ Len(ret.fact_check_history) >= 1

\* max_iterations = 1: returned after the single iteration, which found
\* nothing and stopped on the budget
C35_Witness ==
    /\ pc = "returned"
    /\ max_iterations = 1
    /\ Len(ret.evaluations) = 1
    /\ ret.evaluations[1].should_refine
    /\ ret.result # None
    /\ ret.result.findings = <<>>

\* ---------------------------------------------------------------------------
\* C36: if every call to the Invoker returns or raises and the read of the
\* user's line returns, the run ends, by a return or a raise.  It makes at
\* most max_iterations researcher calls, at most 2 + 3 * max_iterations
\* wrapped calls, and each wrapped call reaches the Invoker at most
\* 1 + MAX_PARSE_RETRIES times, which bounds the Invoker calls of the run
\* by the product of the two.
WrappedCalls ==
    1 + (IF user_input # <<>> THEN 1 ELSE 0)
      + iteration
      + Len(SelectSeq(verdicts, LAMBDA v : v # None))
      + (IF pc = "factcheck" THEN 1 ELSE 0)
      + Len(evaluations)
      + (IF pc = "evaluate" THEN 1 ELSE 0)

C36_Bounds ==
    /\ iteration <= max_iterations
    /\ Len(raw_results) <= max_iterations
    /\ WrappedCalls <= 2 + 3 * max_iterations
    /\ Len(sent) <= 1 + MAX_PARSE_RETRIES
    /\ (WrappedCalls - 1) * (1 + MAX_PARSE_RETRIES) + Len(sent)
          <= (2 + 3 * max_iterations) * (1 + MAX_PARSE_RETRIES)

\* a measure of what the run can still do: the wrapped calls it can still
\* start, each weighed one more than the attempts of a call, and the
\* attempts left to the call in hand; 0 once the run has ended
C36_Left ==
    IF pc \in {"returned", "raised"}
    THEN 0
    ELSE 1 + (2 + 3 * max_iterations - WrappedCalls) * (2 + MAX_PARSE_RETRIES)
           + (1 + MAX_PARSE_RETRIES - Len(sent))

\* every step uses up some of what is left, and a run that has not ended
\* can take a step: with the steps being taken, the run ends
C36_Step == C36_Left' < C36_Left

C36_NeverStuck == pc \notin {"returned", "raised"} => ENABLED Next

\* C36: the run keeps within max_iterations iterations, 2 + 3 *
\* max_iterations wrapped calls and 1 + MAX_PARSE_RETRIES Invoker calls per
\* wrapped call, is never stuck before its end, and each of its steps lowers
\* the measure: as the steps are taken, the run always terminates.
C36_TerminatesWithinBudget ==
    /\ []C36_Bounds
    /\ []C36_NeverStuck
    /\ [][C36_Step]_vars

\* the run ends (the steps being taken is the fairness of the specification)
C36_Eventually == <>(pc \in {"returned", "raised"})

\* the largest run: a revised plan, max_iterations iterations each with a
\* fact-check, and the last evaluator call answered at its last attempt
C36_Witness ==
    /\ pc = "returned"
    /\ max_iterations = MaxIter
    /\ WrappedCalls = 2 + 3 * max_iterations
    /\ Len(sent) = 1 + MAX_PARSE_RETRIES

\* ---------------------------------------------------------------------------
\* C37: in every state of a run no two accepted findings have the same
\* 80-character key, no two accepted evidence items the same url, and no
\* accepted evidence an empty url; this holds as well when the output of one
\* iteration holds duplicates itself, and for the pools handed back in the
\* result returned.
Distinct(s, KeyOf(_)) ==
    \A i, j \in 1..Len(s) : KeyOf(s[i]) = KeyOf(s[j]) => i = j

C37_PoolsDistinct ==
    /\ Distinct(accepted_findings, LAMBDA f : Take(f.content, KeyLen))
    /\ Distinct(accepted_evidence, LAMBDA e : e.url)
    /\ \A e \in Range(accepted_evidence) : e.url # ""
    /\ (pc = "returned" /\ ret.result # None) =>
          /\ Distinct(ret.result.findings, LAMBDA f : Take(f.content, KeyLen))
          /\ Distinct(ret.result.evidence, LAMBDA e : e.url)
          /\ \A e \in Range(ret.result.evidence) : e.url # ""

\* the researcher returned two findings with one key and two evidence items
\* with one url, the verdict let all four pass, the pools took one of each
C37_Witness ==
    /\ pc = "evaluate"
    /\ iteration = 1
    /\ fact_check # None
    /\ IterationAcceptedFindings(current_result, fact_check) = <<FA, FA2>>
    /\ IterationAcceptedEvidence(current_result, fact_check) = <<EU1, EU1b>>
    /\ Len(accepted_findings) = 1
    /\ Len(accepted_evidence) = 1

\* ---------------------------------------------------------------------------
\* C38: every wrapped call has its own retry budget.  Whatever number of
\* Invoker calls the calls before it took, a wrapped call starts with no
\* attempt made and no error recorded, counts only its own attempts, gives up
\* on malformed output only after 1 + max_retries attempts of its own, and
\* returns after at most as many.
C38_FreshBudget ==
    args # None =>
        /\ pc = "standalone" =>
              /\ Len(sent) = attempt
              /\ attempt <= max_retries
              /\ (attempt = 0) <=> (last_error = None)
              /\ ENABLED StandaloneReturns
        /\ (pc = "raised" /\ raised.kind = "ModelBehaviorError") =>
              /\ Len(sent) = 1 + max_retries
              /\ raised.call = 1 + max_retries
        /\ pc = "returned" => Len(sent) \in 1..(1 + max_retries)

\* the first call took all its 1 + max_retries attempts to succeed; the one
\* after it failed max_retries times as well and still returned
C38_Witness ==
    /\ pc = "returned"
    /\ max_retries = MAX_PARSE_RETRIES
    /\ args = Some(<<1 + max_retries>>)
    /\ Len(sent) = 1 + max_retries

\* ... or gave up, after 1 + max_retries attempts of its own
C38_WitnessRaised ==
    /\ pc = "raised"
    /\ max_retries = MAX_PARSE_RETRIES
    /\ args = Some(<<1 + max_retries>>)
    /\ raised.kind = "ModelBehaviorError"
    /\ Len(sent) = 1 + max_retries

\* ---------------------------------------------------------------------------
\* C39: an evaluator output that leaves out should_refine is accepted and
\* decoded with should_refine = TRUE, and the loop takes it as a request to
\* go on: after such an evaluation in iteration i the researcher of iteration
\* i+1 is called unless i = max_iterations, where the run returns; it never
\* stops early.
DecodedWithoutStopSignal ==
    AsEvaluation(BuildModel("EvaluationOutput", WithoutStopSignal))

\* every document tried that leaves the field out decodes to TRUE
OmittedDefaultsToContinue ==
    \A p \in PresentSets("EvaluationOutput") :
        "should_refine" \notin p =>
            LET doc == Restrict(FullDoc("EvaluationOutput"), p) IN
            /\ Accepts("EvaluationOutput", Payload("none", TRUE, doc))
            /\ AsEvaluation(BuildModel("EvaluationOutput", doc)).should_refine

C39_Step ==
    (/\ pc = "evaluate"
     /\ pc' \notin {"evaluate", "raised"}
     /\ LastEvaluation(evaluations') =
           [DecodedWithoutStopSignal EXCEPT !.iteration_number = iteration]) =>
        /\ "should_refine" \notin DOMAIN WithoutStopSignal.v
        /\ Accepts("EvaluationOutput", Payload("none", TRUE, WithoutStopSignal))
        /\ OmittedDefaultsToContinue
        /\ LastEvaluation(evaluations').should_refine
        /\ IF iteration = max_iterations
           THEN pc' = "returned"
           ELSE pc' = "research" /\ iteration' = iteration + 1

C39_OmittedMeansContinue == [][C39_Step]_vars

\* the evaluation of iteration 1 came without should_refine and the
\* researcher of iteration 2 is being called
C39_Witness ==
    /\ pc = "research"
    /\ iteration = 2
    /\ evaluations = <<DecodedWithoutStopSignal>>
    /\ "should_refine" \notin DOMAIN WithoutStopSignal.v

\* the same evaluation in the last iteration allowed: the run returned
C39_WitnessBudget ==
    /\ pc = "returned"
    /\ max_iterations = 1
    /\ ret.evaluations = <<DecodedWithoutStopSignal>>

\* ---------------------------------------------------------------------------
\* C31 (as stated): the improvement rate of the total row is guarded when the
\* single-pass total is 0: formatting a comparison result whose
\* simple_search_total_score is 0 completes and returns the reports without
\* raising.
C31_ZeroTotalGuarded ==
    (/\ pc \in {"formatted", "raised"}
     /\ args.comparison_result.simple_search_total_score = 0) =>
        /\ pc = "formatted"
        /\ raised = None
        /\ ret # None

\* what the formatter does: with a total of 0 it raises ZeroDivisionError and
\* returns nothing; with any other total it returns the signed rate
C31_ZeroTotalRaises ==
    pc \in {"formatted", "raised"} =>
        LET c == args.comparison_result IN
        IF c.simple_search_total_score = 0
        THEN pc = "raised" /\ raised = ZeroDivisionError /\ ret = None
        ELSE /\ pc = "formatted"
             /\ raised = None
             /\ ret.comparison.improvement.sign =
                   (IF c.agentic_search_total_score < c.simple_search_total_score
                    THEN "-" ELSE "+")

C31_Raised ==
    /\ pc = "raised"
    /\ raised = ZeroDivisionError
    /\ args.comparison_result = ComparisonReportOutput(0, 0)

C31_Formatted ==
    /\ pc = "formatted"
    /\ args.comparison_result = ComparisonReportOutput(30, 48)
    /\ ret.comparison.improvement = [sign |-> "+", tenths |-> 600]

\* ---------------------------------------------------------------------------
\* C32: a full run fails atomically.  The phases are invoked in the order
\* single-pass, loop, comparison, formatting, saving, each one only after the
\* one before has returned, so the comparison is invoked only after both the
\* single-pass search and the loop have returned; and when the single-pass
\* search, the loop, the comparison or the formatting raises, no report file
\* has been written and the error is raised to the caller of main.
C32_FailedIn == args.invoked[Len(args.invoked)]

C32_FailsAtomically ==
    /\ args.invoked = SubSeq(MainPhases, 1, Len(args.invoked))
    /\ "agentic" \in Range(args.invoked) => args.simple_result # None
    /\ "comparison" \in Range(args.invoked) =>
          args.simple_result # None /\ args.agentic # None
    /\ "format" \in Range(args.invoked) => args.comparison_result # None
    /\ "save" \in Range(args.invoked) => args.reports # None
    /\ args.files # <<>> => "save" \in Range(args.invoked)
    /\ (pc = "failed" /\ C32_FailedIn # "save") =>
          /\ args.files = <<>>
          /\ raised # None
          /\ raised \in PhaseErrors \cup {ZeroDivisionError}
    /\ pc # "failed" => raised = None

\* the formatting raised after the three phases before it had returned
C32_Witness ==
    /\ pc = "failed"
    /\ C32_FailedIn = "format"
    /\ raised = ZeroDivisionError
    /\ args.simple_result # None /\ args.agentic # None
    /\ args.comparison_result # None
    /\ args.files = <<>>

\* the loop raised
C32_WitnessLoop ==
    /\ pc = "failed"
    /\ C32_FailedIn = "agentic"
    /\ raised = ModelBehaviorError(1)
    /\ args.files = <<>>

\* a run that saved its four files
C32_WitnessSaved ==
    /\ pc = "saved"
    /\ Len(args.files) = 4
    /\ raised = None

\* ---------------------------------------------------------------------------
\* C33 (as stated): batch runs never interleave: the run of theme k+1 starts
\* only after the run of theme k has returned or raised; and an exception
\* raised by the run of one theme is caught, so that every remaining theme is
\* still run.
C33_Started == {args.log[i].theme : i \in {j \in 1..Len(args.log) :
                                            args.log[j].event = "start"}}

C33_NoInterleaving ==
    \A i \in 1..Len(args.log) :
        IF i % 2 = 1
        THEN /\ args.log[i].event = "start"
             /\ args.log[i].theme = (i + 1) \div 2
        ELSE /\ args.log[i].event \in {"returned", "caught", "escaped"}
             /\ args.log[i].theme = args.log[i - 1].theme

C33_EveryThemeRuns ==
    /\ C33_NoInterleaving
    /\ pc \in {"batch_done", "failed"} =>
          C33_Started = 1..Len(args.theme_files)

\* what the loop does: an error of class Exception is caught and the loop
\* goes on; SystemExit leaves batch_run and the themes after it never start
C33_ExitEndsBatch ==
    /\ C33_NoInterleaving
    /\ pc = "batch_done" =>
          /\ C33_Started = 1..Len(args.theme_files)
          /\ raised = None
    /\ pc = "failed" =>
          /\ raised = SystemExit
          /\ args.theme_files[args.k] = "dash"
          /\ C33_Started = 1..args.k

\* an Exception in the first theme was caught and the second theme ran
C33_Caught ==
    /\ pc = "batch_done"
    /\ Len(args.theme_files) = 2
    /\ args.log[2].event = "caught"
    /\ args.log[4].event = "returned"

\* the first of two themes ended the batch
C33_Escaped ==
    /\ pc = "failed"
    /\ Len(args.theme_files) = 2
    /\ args.k = 1
    /\ raised = SystemExit
    /\ C33_Started = {1}

\* ---------------------------------------------------------------------------
\* C34: every call of run_agentic_research starts with empty
\* accepted_findings, accepted_evidence, fact_check_history, evaluations and
\* raw_results, whatever the run before left: the state in which a later run
\* issues its first call is the state in which a first run issues it, so with
\* the same answers of the Invoker it returns the same tuple.  In a later run
\* the histories hold one entry per iteration of that run and every accepted
\* item comes from a researcher output of that run.
C34_Later == args = Some(<<"earlier_run">>)

C34_OwnData ==
    C34_Later =>
        /\ Len(raw_results) <= iteration
        /\ Len(evaluations) <= iteration
        /\ Len(fact_check_history) <= iteration
        /\ \A f \in Range(accepted_findings) :
              \E r \in Range(raw_results) : \E g \in Range(r.findings) :
                  g.content = f.content
        /\ \A e \in Range(accepted_evidence) :
              \E r \in Range(raw_results) : \E g \in Range(r.evidence) :
                  g.url = e.url
        /\ pc = "returned" =>
              /\ Len(ret.raw_results) = iteration
              /\ Len(ret.evaluations) = iteration
              /\ Len(ret.fact_check_history) = iteration

C34_Step ==
    (pc \in {"returned", "raised"} /\ pc' = "plan") =>
        /\ accepted_findings' = <<>>
        /\ accepted_evidence' = <<>>
        /\ fact_check_history' = <<>>
        /\ evaluations' = <<>>
        /\ raw_results' = <<>>
        /\ verdicts' = <<>>
        /\ iteration' = 0
        /\ user_input' = <<>>
        /\ current_plan' = None
        /\ current_result' = None
        /\ fact_check' = None
        /\ prompt' = PlannerPrompt
        /\ attempt' = 0
        /\ last_error' = None
        /\ sent' = <<>>
        /\ raised' = None
        /\ ret' = None
        /\ max_retries' = MAX_PARSE_RETRIES
        /\ max_iterations' = max_iterations

C34_FreshRuns == []C34_OwnData /\ [][C34_Step]_vars

\* a run that started after a run that had filled its pools and histories
\* has returned with pools and histories of its own
C34_Witness ==
    /\ C34_Later
    /\ pc = "returned"
    /\ max_iterations = 2
    /\ iteration = 1
    /\ Len(ret.evaluations) = 1
    /\ accepted_findings # <<>>

\* a later run at its first call
C34_WitnessStart ==
    /\ C34_Later
    /\ pc = "plan"
    /\ sent = <<>>
    /\ accepted_findings = <<>>

====
